---- MODULE Spec2Model ----
(***************************************************************************)
(* Schema-driven field extraction and confidence scoring of parse_flow.    *)
(*                                                                         *)
(* A Python str is modelled as a sequence of one-character strings, so     *)
(* that lower(), split(), find(), strip() and the regular expressions of   *)
(* the extractors are computed character by character.  A Python None is   *)
(* modelled by the value None below.  A dict with str keys is a function   *)
(* whose domain is the set of its keys.                                    *)
(***************************************************************************)
EXTENDS Integers, Sequences, FiniteSets, TLC

----------------------------------------------------------------------------
(* Characters *)

Digits == {"0", "1", "2", "3", "4", "5", "6", "7", "8", "9"}

UpperLetters ==
    {"A", "B", "C", "D", "E", "F", "G", "H", "I", "J", "K", "L", "M",
     "N", "O", "P", "Q", "R", "S", "T", "U", "V", "W", "X", "Y", "Z"}

LowerLetters ==
    {"a", "b", "c", "d", "e", "f", "g", "h", "i", "j", "k", "l", "m",
     "n", "o", "p", "q", "r", "s", "t", "u", "v", "w", "x", "y", "z"}

\* str.strip() without arguments and the regex class \s on a str: the
\* characters c with c.isspace(), those outside the escapes of a string
\* written by their code point (U+000B is the vertical tab)
Whitespace ==
    {" ", "\t", "\n", "\r", "\f", "U+000B", "U+001C", "U+001D", "U+001E",
     "U+001F", "U+0085", "U+00A0", "U+1680", "U+2000", "U+2001", "U+2002",
     "U+2003", "U+2004", "U+2005", "U+2006", "U+2007", "U+2008", "U+2009",
     "U+200A", "U+2028", "U+2029", "U+202F", "U+205F", "U+3000"}

\* the regex class \w, which decides the word boundary \b; of the characters
\* outside ASCII that the model names, the letters U+00E2 and U+00C2 are in it
WordChars ==
    Digits \cup UpperLetters \cup LowerLetters \cup {"_", "U+00E2", "U+00C2"}

\* U+2014, the em dash: one character of the text, written as a name here
EmDash == "EMDASH"

\* the character class [:\-\u2014] of the text strategy
Separators == {":", "-", EmDash}

LowerChar(c) ==
    CASE c = "A" -> "a" [] c = "B" -> "b" [] c = "C" -> "c" [] c = "D" -> "d"
      [] c = "E" -> "e" [] c = "F" -> "f" [] c = "G" -> "g" [] c = "H" -> "h"
      [] c = "I" -> "i" [] c = "J" -> "j" [] c = "K" -> "k" [] c = "L" -> "l"
      [] c = "M" -> "m" [] c = "N" -> "n" [] c = "O" -> "o" [] c = "P" -> "p"
      [] c = "Q" -> "q" [] c = "R" -> "r" [] c = "S" -> "s" [] c = "T" -> "t"
      [] c = "U" -> "u" [] c = "V" -> "v" [] c = "W" -> "w" [] c = "X" -> "x"
      [] c = "Y" -> "y" [] c = "Z" -> "z" [] c = "U+00C2" -> "U+00E2"
      [] OTHER -> c

----------------------------------------------------------------------------
(* str methods *)

Min(S) == CHOOSE x \in S : \A y \in S : x <= y
Max(S) == CHOOSE x \in S : \A y \in S : x >= y

\* Body(v) for the value v of e, which is computed once
With(e, Body(_)) == CHOOSE r \in {Body(v) : v \in {e}} : TRUE

\* s.lower()
lower(s) == [i \in 1..Len(s) |-> LowerChar(s[i])]

\* s[i:j] with 1-based inclusive start i and exclusive end j
Slice(s, i, j) == SubSeq(s, i, j - 1)

\* the 1-based positions at which sub occurs in s
Occurrences(sub, s) ==
    {i \in 1..(Len(s) - Len(sub) + 1) : Slice(s, i, i + Len(sub)) = sub}

\* sub in s
Contains(sub, s) == Occurrences(sub, s) # {}

\* s.find(sub), 1-based; 0 when sub does not occur
find(s, sub) == IF Contains(sub, s) THEN Min(Occurrences(sub, s)) ELSE 0

\* s.startswith(prefix)
startswith(s, prefix) ==
    Len(prefix) <= Len(s) /\ Slice(s, 1, Len(prefix) + 1) = prefix

\* s.split("\n")
RECURSIVE split(_)
split(s) ==
    LET nl == {i \in 1..Len(s) : s[i] = "\n"}
    IN  IF nl = {} THEN <<s>>
        ELSE <<Slice(s, 1, Min(nl))>> \o split(Slice(s, Min(nl) + 1, Len(s) + 1))

\* s.strip()
strip(s) ==
    LET keep == {i \in 1..Len(s) : s[i] \notin Whitespace}
    IN  IF keep = {} THEN <<>> ELSE Slice(s, Min(keep), Max(keep) + 1)

\* s.replace(',', '')
RemoveCommas(s) == SelectSeq(s, LAMBDA c : c # ",")

\* "\n".join(lines)
RECURSIVE JoinLines(_)
JoinLines(lines) ==
    IF Len(lines) = 0 THEN <<>>
    ELSE IF Len(lines) = 1 THEN lines[1]
    ELSE lines[1] \o <<"\n">> \o JoinLines(Tail(lines))

----------------------------------------------------------------------------
(* Regular expressions.  A matcher XAt(s, i) gives the exclusive end of    *)
(* the match that the backtracking matcher of re finds when it starts at   *)
(* position i, or 0 when there is none there.                              *)

IsDigitAt(s, i) == i >= 1 /\ i <= Len(s) /\ s[i] \in Digits
IsWordAt(s, i) == i >= 1 /\ i <= Len(s) /\ s[i] \in WordChars

\* \b between s[i-1] and s[i]
WordBoundary(s, i) == IsWordAt(s, i - 1) # IsWordAt(s, i)

\* the length of the longest run of characters of class C starting at i
RunLength(s, i, C) ==
    LET stop == {j \in i..(Len(s) + 1) : j = Len(s) + 1 \/ s[j] \notin C}
    IN  Min(stop) - i

\* re.sub(r'^[:\-\u2014]\s*', '', s)
StripSeparator(s) ==
    IF Len(s) > 0 /\ s[1] \in Separators
    THEN Slice(s, 2 + RunLength(s, 2, Whitespace), Len(s) + 1)
    ELSE s

\* CurrencyAt with the run [\d,]+ never giving a character back: only a run
\* followed by '.' and two digits matches
CurrencyAt_without_backtracking(s, i) ==
    LET start == IF i <= Len(s) /\ s[i] = "$" THEN i + 1 ELSE i
        j == start + RunLength(s, start, Digits \cup {","})
    IN  IF j > start /\ j <= Len(s) /\ s[j] = "." /\ IsDigitAt(s, j + 1) /\ IsDigitAt(s, j + 2)
        THEN j + 3
        ELSE 0

\* \$?[\d,]+\.?\d{2} : after the optional dollar sign the run [\d,]+ is taken
\* greedily and given back one character at a time until an optional '.' and
\* two digits follow.
CurrencyAt(s, i) ==
    LET start == IF i <= Len(s) /\ s[i] = "$" THEN i + 1 ELSE i
        run == RunLength(s, start, Digits \cup {","})
        WithDot(j) == j <= Len(s) /\ s[j] = "." /\ IsDigitAt(s, j + 1) /\ IsDigitAt(s, j + 2)
        NoDot(j) == IsDigitAt(s, j) /\ IsDigitAt(s, j + 1)
        ok == {r \in 1..run : WithDot(start + r) \/ NoDot(start + r)}
    IN  IF ok = {} THEN 0
        ELSE LET j == start + Max(ok)
             IN  IF WithDot(j) THEN j + 3 ELSE j + 2

\* \b\d+\.?\d*\b
NumberAt(s, i) ==
    LET run == RunLength(s, i, Digits)
        \* the ends reachable after giving the first run r digits, best first
        EndFor(r) ==
            LET j == i + r
                dot == j <= Len(s) /\ s[j] = "."
                fracs == IF dot THEN {j + 1 + d : d \in 0..RunLength(s, j + 1, Digits)} ELSE {}
                plain == {j + d : d \in 0..RunLength(s, j, Digits)}
                viaDot == {e \in fracs : WordBoundary(s, e)}
                viaPlain == {e \in plain : WordBoundary(s, e)}
            IN  IF viaDot # {} THEN Max(viaDot)
                ELSE IF viaPlain # {} THEN Max(viaPlain)
                ELSE 0
        ok == {r \in 1..run : EndFor(r) # 0}
    IN  IF ~WordBoundary(s, i) \/ ok = {} THEN 0 ELSE EndFor(Max(ok))

\* \b\d{a[1],a[2]} sep \d{b[1],b[2]} sep \d{c[1],c[2]}\b for the pattern
\* pat = [sep, a, b, c]: each counted group is tried longest first, the
\* earlier group having priority.
DateAt(s, i, pat) ==
    LET AllDigits(from, n) == \A k \in 0..(n - 1) : IsDigitAt(s, from + k)
        SepAt(j) == j <= Len(s) /\ s[j] = pat.sep
        Fits(a, b, c) ==
            /\ AllDigits(i, a) /\ SepAt(i + a)
            /\ AllDigits(i + a + 1, b) /\ SepAt(i + a + 1 + b)
            /\ AllDigits(i + a + b + 2, c)
            /\ WordBoundary(s, i + a + b + 2 + c)
        Better(t, u) ==
            \/ t[1] > u[1]
            \/ t[1] = u[1] /\ t[2] > u[2]
            \/ t[1] = u[1] /\ t[2] = u[2] /\ t[3] >= u[3]
    IN  IF ~WordBoundary(s, i) THEN 0
        ELSE With({t \in (pat.a[1]..pat.a[2]) \X (pat.b[1]..pat.b[2]) \X (pat.c[1]..pat.c[2]) :
                      Fits(t[1], t[2], t[3])},
                  LAMBDA cand :
                      IF cand = {} THEN 0
                      ELSE LET best == CHOOSE t \in cand : \A u \in cand : Better(t, u)
                           IN  i + best[1] + best[2] + best[3] + 2)

\* the list date_patterns: MM/DD/YYYY, YYYY-MM-DD, MM-DD-YYYY, MM.DD.YYYY
date_patterns ==
    << [sep |-> "/", a |-> <<1, 2>>, b |-> <<1, 2>>, c |-> <<2, 4>>],
       [sep |-> "-", a |-> <<4, 4>>, b |-> <<2, 2>>, c |-> <<2, 2>>],
       [sep |-> "-", a |-> <<1, 2>>, b |-> <<1, 2>>, c |-> <<2, 4>>],
       [sep |-> ".", a |-> <<1, 2>>, b |-> <<1, 2>>, c |-> <<2, 4>>] >>

\* re.findall(pattern, s)[0] and re.search(pattern, s).group(0): the leftmost
\* match; NoMatch when there is none.  At(i) is the matcher of the pattern.
NoMatch == <<"NoMatch">>

FirstMatch(s, At(_)) ==
    With([i \in 1..Len(s) |-> At(i)],
         LAMBDA end :
             LET starts == {i \in DOMAIN end : end[i] # 0}
             IN  IF starts = {} THEN NoMatch
                 ELSE Slice(s, Min(starts), end[Min(starts)]))

FirstCurrency(s) == FirstMatch(s, LAMBDA i : CurrencyAt(s, i))
FirstNumber(s) == FirstMatch(s, LAMBDA i : NumberAt(s, i))
FirstDate(p, s) == FirstMatch(s, LAMBDA i : DateAt(s, i, date_patterns[p]))

\* the match of the first of the patterns date_patterns[:n] that matches s
FirstDateOf(n, s) ==
    With([p \in 1..n |-> FirstDate(p, s)],
         LAMBDA m :
             LET matching == {p \in DOMAIN m : m[p] # NoMatch}
             IN  IF matching = {} THEN NoMatch ELSE m[Min(matching)])

----------------------------------------------------------------------------
(* Python values and outcomes *)

\* None: no str is equal to it
None == <<"None">>

\* the outcome of a call: it returns value, or raises the named exception
Return(v) == [raised |-> "", value |-> v]
Raise(e) == [raised |-> e, value |-> None]

\* str(x) and f"{x}" of a str or of None
Format(x) == IF x = None THEN <<"N", "o", "n", "e">> ELSE x

\* d[k] = v on a dict d
Put(d, k, v) == [x \in (DOMAIN d) \cup {k} |-> IF x = k THEN v ELSE d[x]]

\* field.get(key, default)
Get(field, key, default) == IF key \in DOMAIN field THEN field[key] ELSE default

\* any(keyword in line_lower for keyword in keywords)
AnyKeywordIn(keywords, line) == \E kw \in keywords : Contains(kw, lower(line))

----------------------------------------------------------------------------
(* src/sarah_ai_direct_extraction.py: the type strategies of SarahAIProcessor *)

\* The search that the currency, date and number strategies share: the lines
\* of content in order, a line counting only if it holds a keyword, and after
\* them content as a whole; the first of these in which First finds a match
\* gives it.  NoMatch when none does.
KeywordLineThenGlobal(content, keywords, First(_)) ==
    With(Append(split(content), content),
         LAMBDA searched :
             With([k \in DOMAIN searched |->
                      IF k = Len(searched) \/ AnyKeywordIn(keywords, searched[k])
                      THEN First(searched[k])
                      ELSE NoMatch],
                  LAMBDA found :
                      LET hits == {k \in DOMAIN found : found[k] # NoMatch}
                      IN  IF hits = {} THEN NoMatch ELSE found[Min(hits)]))

\* _extract_currency_value without the .replace(',', '') of its two returns
_extract_currency_value_keeping_commas(content, field_name, instruction) ==
    IF field_name = None \/ instruction = None THEN Raise("AttributeError")
    ELSE With(KeywordLineThenGlobal(content,
                  {lower(field_name), lower(instruction),
                   <<"t", "o", "t", "a", "l">>, <<"a", "m", "o", "u", "n", "t">>, <<"c", "o", "s", "t">>, <<"p", "r", "i", "c", "e">>},
                  FirstCurrency),
              LAMBDA m :
                  IF m # NoMatch THEN Return(m)
                  ELSE Return(<<"N", "o", " ", "c", "u", "r", "r", "e", "n", "c", "y", " ", "f", "o", "u", "n", "d", " ", "f", "o", "r", ":", " ">> \o field_name))

\* _extract_currency_value returning the amount without its dollar sign
_extract_currency_value_dropping_dollar(content, field_name, instruction) ==
    IF field_name = None \/ instruction = None THEN Raise("AttributeError")
    ELSE With(KeywordLineThenGlobal(content,
                  {lower(field_name), lower(instruction),
                   <<"t", "o", "t", "a", "l">>, <<"a", "m", "o", "u", "n", "t">>, <<"c", "o", "s", "t">>, <<"p", "r", "i", "c", "e">>},
                  FirstCurrency),
              LAMBDA m :
                  IF m = NoMatch
                  THEN Return(<<"N", "o", " ", "c", "u", "r", "r", "e", "n", "c", "y", " ", "f", "o", "u", "n", "d", " ", "f", "o", "r", ":", " ">> \o field_name)
                  ELSE IF m[1] = "$"
                  THEN Return(RemoveCommas(Slice(m, 2, Len(m) + 1)))
                  ELSE Return(RemoveCommas(m)))

\* _extract_currency_value searching the whole content before the lines
_extract_currency_value_global_first(content, field_name, instruction) ==
    IF field_name = None \/ instruction = None THEN Raise("AttributeError")
    ELSE With(FirstCurrency(content),
              LAMBDA m :
                  IF m # NoMatch THEN Return(RemoveCommas(m))
                  ELSE Return(<<"N", "o", " ", "c", "u", "r", "r", "e", "n", "c", "y", " ", "f", "o", "u", "n", "d", " ", "f", "o", "r", ":", " ">> \o field_name))

_extract_currency_value(content, field_name, instruction) ==
    IF field_name = None \/ instruction = None THEN Raise("AttributeError")
    ELSE With(KeywordLineThenGlobal(content,
                  {lower(field_name), lower(instruction),
                   <<"t", "o", "t", "a", "l">>, <<"a", "m", "o", "u", "n", "t">>, <<"c", "o", "s", "t">>, <<"p", "r", "i", "c", "e">>},
                  FirstCurrency),
              LAMBDA m :
                  IF m # NoMatch THEN Return(RemoveCommas(m))
                  ELSE Return(<<"N", "o", " ", "c", "u", "r", "r", "e", "n", "c", "y", " ", "f", "o", "u", "n", "d", " ", "f", "o", "r", ":", " ">> \o field_name))

\* _extract_date_value with its two loops exchanged: each pattern in turn is
\* tried on every keyword line before the next pattern is
_extract_date_value_pattern_first(content, field_name, instruction) ==
    IF field_name = None \/ instruction = None THEN Raise("AttributeError")
    ELSE LET keywords == {lower(field_name), lower(instruction),
                          <<"d", "a", "t", "e">>, <<"i", "n", "v", "o", "i", "c", "e", " ", "d", "a", "t", "e">>, <<"b", "i", "l", "l", " ", "d", "a", "t", "e">>, <<"i", "s", "s", "u", "e", "d">>}
             lines == split(content)
             hits == [p \in 1..4 |->
                         {k \in 1..Len(lines) :
                             /\ AnyKeywordIn(keywords, lines[k])
                             /\ FirstDate(p, lines[k]) # NoMatch}]
             matching == {p \in 1..4 : hits[p] # {}}
         IN  IF matching # {}
             THEN Return(FirstDate(Min(matching), lines[Min(hits[Min(matching)])]))
             ELSE IF FirstDateOf(4, content) # NoMatch
             THEN Return(FirstDateOf(4, content))
             ELSE Return(<<"N", "o", " ", "d", "a", "t", "e", " ", "f", "o", "u", "n", "d", " ", "f", "o", "r", ":", " ">> \o field_name)

_extract_date_value(content, field_name, instruction) ==
    IF field_name = None \/ instruction = None THEN Raise("AttributeError")
    ELSE With(KeywordLineThenGlobal(content,
                  {lower(field_name), lower(instruction),
                   <<"d", "a", "t", "e">>, <<"i", "n", "v", "o", "i", "c", "e", " ", "d", "a", "t", "e">>, <<"b", "i", "l", "l", " ", "d", "a", "t", "e">>, <<"i", "s", "s", "u", "e", "d">>},
                  LAMBDA s : FirstDateOf(4, s)),
              LAMBDA m :
                  IF m # NoMatch THEN Return(m)
                  ELSE Return(<<"N", "o", " ", "d", "a", "t", "e", " ", "f", "o", "u", "n", "d", " ", "f", "o", "r", ":", " ">> \o field_name))

_extract_number_value(content, field_name, instruction) ==
    IF field_name = None \/ instruction = None THEN Raise("AttributeError")
    ELSE With(KeywordLineThenGlobal(content,
                  {lower(field_name), lower(instruction),
                   <<"n", "u", "m", "b", "e", "r">>, <<"c", "o", "u", "n", "t">>, <<"q", "t", "y">>, <<"q", "u", "a", "n", "t", "i", "t", "y">>},
                  FirstNumber),
              LAMBDA m :
                  IF m # NoMatch THEN Return(m)
                  ELSE Return(<<"N", "o", " ", "n", "u", "m", "b", "e", "r", " ", "f", "o", "u", "n", "d", " ", "f", "o", "r", ":", " ">> \o field_name))

\* line[pos + len(keyword):] stripped, its leading separator removed, stripped
AfterKeyword(line, keyword) ==
    strip(StripSeparator(strip(
        Slice(line, find(lower(line), keyword) + Len(keyword), Len(line) + 1))))

\* _extract_text_value with the sentinel of the simulation processor, which
\* names the instruction where this one names the field
_extract_text_value_naming_instruction(content, field_name, instruction) ==
    IF field_name = None \/ instruction = None THEN Raise("AttributeError")
    ELSE With(split(content),
              LAMBDA lines :
                  LET hits == {k \in 1..Len(lines) :
                                  AnyKeywordIn({lower(field_name), lower(instruction)},
                                               lines[k])}
                  IN  IF hits # {}
                      THEN Return(AfterKeyword(lines[Min(hits)],
                                      IF Contains(lower(field_name), lower(lines[Min(hits)]))
                                      THEN lower(field_name) ELSE lower(instruction)))
                      ELSE Return(<<"N", "o", " ", "t", "e", "x", "t", " ", "f", "o", "u", "n", "d", " ", "f", "o", "r", ":", " ">> \o instruction))

\* _extract_text_value going on to its last fallback when the keyword line
\* has nothing after the keyword
_extract_text_value_falling_back(content, field_name, instruction) ==
    IF field_name = None \/ instruction = None THEN Raise("AttributeError")
    ELSE With(split(content),
              LAMBDA lines :
                  LET name_lower == lower(field_name)
                      instruction_lower == lower(instruction)
                      hits == {k \in 1..Len(lines) :
                                  AnyKeywordIn({name_lower, instruction_lower}, lines[k])}
                      first == AfterKeyword(lines[Min(hits)],
                                   IF Contains(name_lower, lower(lines[Min(hits)]))
                                   THEN name_lower ELSE instruction_lower)
                      byName == {k \in 1..Len(lines) : Contains(name_lower, lower(lines[k]))}
                  IN  IF hits # {} /\ first # <<>> THEN Return(first)
                      ELSE IF byName # {} THEN Return(strip(lines[Min(byName)]))
                      ELSE Return(<<"N", "o", " ", "t", "e", "x", "t", " ", "f", "o", "u", "n", "d", " ", "f", "o", "r", ":", " ">> \o field_name))

_extract_text_value(content, field_name, instruction) ==
    IF field_name = None \/ instruction = None THEN Raise("AttributeError")
    ELSE With(split(content),
              LAMBDA lines :
                  LET name_lower == lower(field_name)
                      instruction_lower == lower(instruction)
                      hits == {k \in 1..Len(lines) :
                                  AnyKeywordIn({name_lower, instruction_lower}, lines[k])}
                      byInstruction == {k \in 1..Len(lines) :
                                           Contains(instruction_lower, lower(lines[k]))}
                      byName == {k \in 1..Len(lines) : Contains(name_lower, lower(lines[k]))}
                  IN  IF hits # {}
                      THEN \* the keywords are tried in the order [name, instruction]
                           Return(AfterKeyword(lines[Min(hits)],
                                      IF Contains(name_lower, lower(lines[Min(hits)]))
                                      THEN name_lower ELSE instruction_lower))
                      ELSE IF byInstruction # {}
                      THEN Return(AfterKeyword(lines[Min(byInstruction)], instruction_lower))
                      ELSE IF byName # {} THEN Return(strip(lines[Min(byName)]))
                      ELSE Return(<<"N", "o", " ", "t", "e", "x", "t", " ", "f", "o", "u", "n", "d", " ", "f", "o", "r", ":", " ">> \o field_name))

----------------------------------------------------------------------------
(* src/sarah_ai_direct_extraction.py: SarahAIProcessor, schema level *)

\* the body of the loop "for field in schema" for one field
ExtractField(content, field) ==
    IF "name" \notin DOMAIN field THEN Raise("KeyError")
    ELSE
    LET field_name == field["name"]
        field_type == Get(field, "type", "text")
        instruction == Get(field, "instruction", <<>>)
    IN  IF field_type = "currency" THEN _extract_currency_value(content, field_name, instruction)
        ELSE IF field_type = "date" THEN _extract_date_value(content, field_name, instruction)
        ELSE IF field_type = "number" THEN _extract_number_value(content, field_name, instruction)
        ELSE _extract_text_value(content, field_name, instruction)

\* ExtractLoop taking every field after the first with the text strategy
RECURSIVE ExtractLoop_first_field_typed(_, _, _)
ExtractLoop_first_field_typed(content, schema, extracted) ==
    IF schema = <<>> THEN Return(extracted)
    ELSE With(IF extracted = <<>> \/ "name" \notin DOMAIN Head(schema)
              THEN ExtractField(content, Head(schema))
              ELSE _extract_text_value(content, Head(schema)["name"],
                                       Get(Head(schema), "instruction", <<>>)),
              LAMBDA r :
                  IF r.raised # "" THEN r
                  ELSE ExtractLoop_first_field_typed(
                           content, Tail(schema),
                           Put(extracted, Head(schema)["name"], r.value)))

\* the loop, from the dict built so far: the first exception ends the call
RECURSIVE ExtractLoop(_, _, _)
ExtractLoop(content, schema, extracted) ==
    IF schema = <<>> THEN Return(extracted)
    ELSE With(ExtractField(content, Head(schema)),
              LAMBDA r :
                  IF r.raised # "" THEN r
                  ELSE ExtractLoop(content, Tail(schema),
                                   Put(extracted, Head(schema)["name"], r.value)))

_extract_values_from_structured_output(text_content, ocr_content, schema) ==
    With(text_content \o <<"\n", "\n">> \o ocr_content,
         LAMBDA combined_content : ExtractLoop(combined_content, schema, <<>>))

\* A confidence is a float of the code; the model keeps it as the exact
\* fraction num/den in lowest terms, so that equal values are equal records.
RECURSIVE GCD(_, _)
GCD(a, b) == IF b = 0 THEN a ELSE GCD(b, a % b)

Fraction(n, d) == [num |-> n \div GCD(n, d), den |-> d \div GCD(n, d)]

Zero == Fraction(0, 1)
One == Fraction(1, 1)

Leq(x, y) == x.num * y.den <= y.num * x.den

\* min(1.0, max(0.0, x))
Clip(x) == IF Leq(x, Zero) THEN Zero ELSE IF Leq(One, x) THEN One ELSE x

\* the boost added per successful field, in hundredths: 0.02
BoostPercent == 2

\* value and not value.startswith("No ") and len(value) > 0
Successful(value) ==
    value # None /\ Len(value) > 0 /\ ~startswith(value, <<"N", "o", " ">>)

\* the keys whose values count as successful extractions
SuccessfulKeys(extracted_data) ==
    {k \in DOMAIN extracted_data : Successful(extracted_data[k])}

\* _calculate_confidence without the loop that adds 0.02 per successful value
_calculate_confidence_plain_ratio(extracted_data, schema) ==
    IF schema = <<>> THEN Zero
    ELSE Clip(Fraction(Cardinality(SuccessfulKeys(extracted_data)), Len(schema)))

\* _calculate_confidence without the min(1.0, max(0.0, ...)) of its return
_calculate_confidence_unclipped(extracted_data, schema) ==
    IF schema = <<>> THEN Zero
    ELSE Fraction(100 * Cardinality(SuccessfulKeys(extracted_data))
                    + BoostPercent * Cardinality(SuccessfulKeys(extracted_data)) * Len(schema),
                  100 * Len(schema))

\* _calculate_confidence with the test of its two conditions inverted: it
\* counts the values that are no successes
_calculate_confidence_counting_failures(extracted_data, schema) ==
    IF schema = <<>> THEN Zero
    ELSE LET failures == Cardinality(DOMAIN extracted_data)
                             - Cardinality(SuccessfulKeys(extracted_data))
         IN  Clip(Fraction(100 * failures + BoostPercent * failures * Len(schema),
                           100 * Len(schema)))

_calculate_confidence(extracted_data, schema) ==
    IF schema = <<>> THEN Zero
    ELSE LET successful_extractions == Cardinality(SuccessfulKeys(extracted_data))
             n == Len(schema)
         IN  \* successful/n, then + 0.02 once per successful value
             Clip(Fraction(100 * successful_extractions
                             + BoostPercent * successful_extractions * n,
                           100 * n))

\* a value of a schema field that is a str: the type of a field is kept as a
\* string of the model with "None" for null, the other values are sequences
\* of characters with None for null, and "required" holds a bool
IsStr(key, value) ==
    IF key = "type" THEN value # "None"
    ELSE IF key = "required" THEN FALSE
    ELSE value # None

\* pydantic's validation of schema_used: List[Dict[str, str]] in strict-free
\* mode of pydantic 2, the version whose model_dump() the repository calls:
\* a value that is no str (a bool, a null) is refused, never converted
ValidSchemaUsed(schema) ==
    \A k \in 1..Len(schema) : \A key \in DOMAIN schema[k] : IsStr(key, schema[k][key])

\* Steps 3 to 5 of process_document_with_schema, from the two texts that the
\* OCR calls of steps 1 and 2 returned: the extracted dict and its
\* confidence, then the ProcessingResult that is built from them and from the
\* schema, whose construction raises when the schema does not validate
process_document_with_schema(text_content, ocr_content, schema) ==
    With(_extract_values_from_structured_output(text_content, ocr_content, schema),
         LAMBDA r :
             IF r.raised # "" THEN r
             ELSE With(_calculate_confidence(r.value, schema),
                       LAMBDA confidence :
                           IF ~ValidSchemaUsed(schema) THEN Raise("ValidationError")
                           ELSE Return([extracted_data |-> r.value,
                                        confidence |-> confidence,
                                        raw_text |-> text_content,
                                        raw_ocr |-> ocr_content,
                                        schema_used |-> schema])))

----------------------------------------------------------------------------
(* src/apify/actor.py: OCRProcessor and parse_pdf_node.  Its four type     *)
(* strategies (lines 150-278) are the strategies of SarahAIProcessor       *)
(* above, copied line by line.                                             *)

extract_according_to_schema(text_content, ocr_content, schema) ==
    With(text_content \o <<"\n", "\n">> \o ocr_content,
         LAMBDA combined_content : ExtractLoop(combined_content, schema, <<>>))

\* parse_pdf_node once Docling has returned text_content for the PDF:
\* the extracted fields and found_fields / total_fields
parse_pdf_node(text_content, user_schema) ==
    With(extract_according_to_schema(text_content, text_content, user_schema),
         LAMBDA r :
             IF r.raised # "" THEN r
             ELSE LET extracted_fields == r.value
                      found_fields == Cardinality({k \in DOMAIN extracted_fields :
                                          ~startswith(extracted_fields[k], <<"N", "o", " ">>)})
                      total_fields == Cardinality(DOMAIN extracted_fields)
                  IN  Return([extracted_fields |-> extracted_fields,
                              confidence |-> IF total_fields > 0
                                             THEN Fraction(found_fields, total_fields)
                                             ELSE Zero]))

----------------------------------------------------------------------------
(* src/sarah_ai_processing_engine.py: SarahAIProcessor._calculate_confidence *)

\* the boost added per successful field, in hundredths: 0.05
EngineBoostPercent == 5

processing_engine_calculate_confidence(extracted_data, schema) ==
    IF schema = <<>> THEN Zero
    ELSE LET successful_extractions ==
                 Cardinality({k \in DOMAIN extracted_data :
                     /\ extracted_data[k] # None
                     /\ Len(extracted_data[k]) > 0
                     /\ ~startswith(extracted_data[k], <<"N", "o", " ">>)})
             n == Len(schema)
         IN  Clip(Fraction(100 * successful_extractions
                             + EngineBoostPercent * successful_extractions * n,
                           100 * n))

----------------------------------------------------------------------------
(* src/engine/main.py: extract_with_schema and the confidence of process_job *)

\* \$?[\d,]+\.?\d* : the three greedy parts never have to give anything back
LooseCurrencyAt(s, i) ==
    LET start == IF i <= Len(s) /\ s[i] = "$" THEN i + 1 ELSE i
        run == RunLength(s, start, Digits \cup {","})
        j == start + run
        k == IF j <= Len(s) /\ s[j] = "." THEN j + 1 ELSE j
    IN  IF run = 0 THEN 0 ELSE k + RunLength(s, k, Digits)

FirstLooseCurrency(s) == FirstMatch(s, LAMBDA i : LooseCurrencyAt(s, i))

\* the characters of the class [:\-\...] as the file holds it: the em dash of
\* the other copies is stored here as the three characters U+00E2 U+20AC
\* U+201D, and re.IGNORECASE adds U+00C2
EngineSeparators == {":", "-", "U+00E2", "U+00C2", "U+20AC", "U+201D"}

\* the characters of the class [^\n\r.]
ValueChars(s) == {s[i] : i \in 1..Len(s)} \ {"\n", "\r", "."}

\* re.escape(label) + r'\s*[seps]\s*([^\n\r.]+)' with re.IGNORECASE, started
\* at i: <<start, end>> of group 1, or <<0, 0>>.  The second \s* gives
\* whitespace back until a character of the group follows it.
LabelledValueAt(s, i, label, seps) ==
    LET a == i + Len(label)
        sepPos == a + RunLength(s, a, Whitespace)
        w == RunLength(s, sepPos + 1, Whitespace)
        ok == {t \in 0..w : RunLength(s, sepPos + 1 + t, ValueChars(s)) >= 1}
        g == sepPos + 1 + Max(ok)
    IN  IF /\ a <= Len(s) + 1
           /\ lower(Slice(s, i, a)) = lower(label)
           /\ sepPos <= Len(s) /\ s[sepPos] \in seps
           /\ ok # {}
        THEN <<g, g + RunLength(s, g, ValueChars(s))>>
        ELSE <<0, 0>>

\* pattern.search(text).group(1), or NoMatch
LabelledValue(s, label, seps) ==
    With([i \in 1..(Len(s) + 1) |-> LabelledValueAt(s, i, label, seps)],
         LAMBDA m :
             LET starts == {i \in DOMAIN m : m[i][1] # 0}
             IN  IF starts = {} THEN NoMatch
                 ELSE Slice(s, m[Min(starts)][1], m[Min(starts)][2]))

\* s.split(): the maximal runs of non-whitespace characters
Words(s) ==
    {Slice(s, i, i + RunLength(s, i, {s[k] : k \in 1..Len(s)} \ Whitespace)) :
        i \in {j \in 1..Len(s) : s[j] \notin Whitespace
                                 /\ (j = 1 \/ s[j - 1] \in Whitespace)}}

\* the stripped first line of text that holds every word of the instruction,
\* or NoMatch
LineWithAllWords(text, instruction) ==
    With(split(text),
         LAMBDA lines :
             LET hits == {k \in 1..Len(lines) :
                             \A word \in Words(lower(instruction)) :
                                 Contains(word, lower(lines[k]))}
             IN  IF hits = {} THEN NoMatch ELSE strip(lines[Min(hits)]))

extract_text_by_instruction(text, instruction) ==
    IF instruction = None THEN Raise("TypeError")
    ELSE With(LabelledValue(text, instruction, EngineSeparators),
              LAMBDA m :
                  IF m # NoMatch THEN Return(strip(m))
                  ELSE With(LineWithAllWords(text, instruction),
                            LAMBDA line :
                                IF line # NoMatch THEN Return(line)
                                ELSE Return(<<"N", "o", " ", "d", "a", "t", "a", " ", "f", "o", "u", "n", "d", " ", "f", "o", "r", " ", "i", "n", "s", "t", "r", "u", "c", "t", "i", "o", "n", ":", " ">>
                                            \o instruction)))

\* The body of the loop of extract_with_schema for one field: the value of
\* its entry, and NoMatch when the field gets no entry, which is so when its
\* pattern finds nothing and when its type is none of the four.
EngineField(text, field) ==
    IF "name" \notin DOMAIN field THEN Raise("KeyError")
    ELSE
    LET field_type == Get(field, "type", "text")
        instruction == Get(field, "instruction", <<>>)
    IN  IF field_type = "currency"
        THEN With(FirstLooseCurrency(text),
                  LAMBDA m : Return(IF m = NoMatch THEN NoMatch ELSE RemoveCommas(m)))
        ELSE IF field_type = "number" THEN Return(FirstNumber(text))
        ELSE IF field_type = "date" THEN Return(FirstDateOf(3, text))
        ELSE IF field_type = "text" THEN extract_text_by_instruction(text, instruction)
        ELSE Return(NoMatch)

RECURSIVE EngineLoop(_, _, _)
EngineLoop(text, schema, extracted) ==
    IF schema = <<>> THEN Return(extracted)
    ELSE With(EngineField(text, Head(schema)),
              LAMBDA r :
                  IF r.raised # "" THEN r
                  ELSE EngineLoop(text, Tail(schema),
                                  IF r.value = NoMatch THEN extracted
                                  ELSE Put(extracted, Head(schema)["name"], r.value)))

extract_with_schema(text, schema) == EngineLoop(text, schema, <<>>)

\* A schema_json is modelled by what json.loads makes of it: InvalidJson
\* when it raises JSONDecodeError, else Json(schema) for the text that
\* denotes schema.
\* EmptyJson is the empty text, which is falsy and does not parse either.
InvalidJson == [valid |-> FALSE, empty |-> FALSE, schema |-> <<>>]
EmptyJson == [valid |-> FALSE, empty |-> TRUE, schema |-> <<>>]
Json(schema) == [valid |-> TRUE, empty |-> FALSE, schema |-> schema]

\* the value process_job gives the confidence when no field is required: 0.9
NoRequiredFieldsConfidence == Fraction(9, 10)

\* the keys of the dict that extract_with_schema returns, in the order in
\* which it inserted them, which is the order of data.items(): a key enters
\* with the first field of its name that gets an entry
RECURSIVE InsertionOrder(_, _, _)
InsertionOrder(text, schema, keys) ==
    IF schema = <<>> THEN keys
    ELSE InsertionOrder(text, Tail(schema),
             IF \/ EngineField(text, Head(schema)).value = NoMatch
                \/ \E k \in 1..Len(keys) : keys[k] = Head(schema)["name"]
             THEN keys
             ELSE Append(keys, Head(schema)["name"]))

\* s.replace(old, new): the occurrences of old from left to right, none
\* overlapping another; an empty old stands before every character and at
\* the end
RECURSIVE replace(_, _, _)
replace(s, old, new) ==
    IF old = <<>>
    THEN IF s = <<>> THEN new ELSE new \o <<Head(s)>> \o replace(Tail(s), old, new)
    ELSE IF Len(s) < Len(old) THEN s
    ELSE IF SubSeq(s, 1, Len(old)) = old
    THEN new \o replace(SubSeq(s, Len(old) + 1, Len(s)), old, new)
    ELSE <<Head(s)>> \o replace(Tail(s), old, new)

\* the loop of apply_formula over data.items(), from the key at place k
RECURSIVE ReplaceKeys(_, _, _, _)
ReplaceKeys(processed_formula, data, keys, k) ==
    IF k > Len(keys) THEN processed_formula
    ELSE ReplaceKeys(replace(processed_formula, keys[k], Format(data[keys[k]])),
                     data, keys, k + 1)

\* apply_formula on the dict data whose keys were inserted in the order keys:
\* with no key the formula comes back as it is, null included; a null formula
\* or a null key makes replace raise, which the bare except turns into the
\* text "Formula error: ..."
apply_formula(data, keys, formula) ==
    IF keys = <<>> THEN formula
    ELSE IF formula = None \/ \E k \in 1..Len(keys) : keys[k] = None
    THEN <<"F", "o", "r", "m", "u", "l", "a", " ", "e", "r", "r", "o", "r", ":", " ">> \o Format(formula)
    ELSE ReplaceKeys(formula, data, keys, 1)

\* the loop "for field in schema: if 'formula' in field" of process_job; every
\* field has a name here, extract_with_schema having raised KeyError otherwise
RECURSIVE FormulaLoop(_, _, _)
FormulaLoop(schema, data, keys) ==
    IF schema = <<>> THEN data
    ELSE IF "formula" \notin DOMAIN Head(schema) THEN FormulaLoop(Tail(schema), data, keys)
    ELSE FormulaLoop(Tail(schema),
                     Put(data, Head(schema)["name"],
                         apply_formula(data, keys, Head(schema)["formula"])),
                     IF Head(schema)["name"] \in DOMAIN data THEN keys
                     ELSE Append(keys, Head(schema)["name"]))

\* process_job for a request whose x-secret header is or is not ENGINE_SECRET,
\* whose body carries schema_json, and for which Docling exports
\* markdown_content.  The result holds len(found_fields) / len(required_fields),
\* computed from the extracted data, and the extracted data after the
\* formulas of the schema were applied to them.
process_job(secret_ok, schema_json, markdown_content) ==
    IF ~secret_ok THEN Raise("HTTP 401")
    ELSE IF schema_json.empty \/ ~schema_json.valid THEN Raise("HTTP 400")
    ELSE With(extract_with_schema(markdown_content, schema_json.schema),
              LAMBDA r :
                  IF r.raised # "" THEN r
                  ELSE LET schema == schema_json.schema
                           required_fields ==
                               {k \in 1..Len(schema) :
                                   "required" \in DOMAIN schema[k] /\ schema[k]["required"]}
                           found_fields ==
                               {k \in required_fields : schema[k]["name"] \in DOMAIN r.value}
                       IN  Return([result |->
                                       FormulaLoop(schema, r.value,
                                           InsertionOrder(markdown_content, schema, <<>>)),
                                   confidence |-> IF required_fields # {}
                                                  THEN Fraction(Cardinality(found_fields),
                                                                Cardinality(required_fields))
                                                  ELSE NoRequiredFieldsConfidence,
                                   raw_markdown |-> markdown_content]))

----------------------------------------------------------------------------
(* src/sarah_ai_engine_simulation.py: SarahAIProcessor, which keeps the    *)
(* list processing_history                                                 *)

\* \$?[\d,]+\.?\d{0,2}
SimCurrencyAt(s, i) ==
    LET start == IF i <= Len(s) /\ s[i] = "$" THEN i + 1 ELSE i
        run == RunLength(s, start, Digits \cup {","})
        j == start + run
        k == IF j <= Len(s) /\ s[j] = "." THEN j + 1 ELSE j
        d == RunLength(s, k, Digits)
    IN  IF run = 0 THEN 0 ELSE k + (IF d > 2 THEN 2 ELSE d)

FirstSimCurrency(s) == FirstMatch(s, LAMBDA i : SimCurrencyAt(s, i))


\* a match if there is one, else the sentinel f"No {kind} found for: {instruction}"
MatchOrSentinel(m, kind, instruction) ==
    IF m # NoMatch THEN Return(m)
    ELSE Return(<<"N", "o", " ">> \o kind \o <<" ", "f", "o", "u", "n", "d", " ", "f", "o", "r", ":", " ">> \o Format(instruction))

_extract_currency(text, instruction) ==
    With(FirstSimCurrency(text), LAMBDA m : MatchOrSentinel(m, <<"c", "u", "r", "r", "e", "n", "c", "y">>, instruction))

_extract_number(text, instruction) ==
    With(FirstNumber(text), LAMBDA m : MatchOrSentinel(m, <<"n", "u", "m", "b", "e", "r">>, instruction))

_extract_date(text, instruction) ==
    With(FirstDateOf(3, text), LAMBDA m : MatchOrSentinel(m, <<"d", "a", "t", "e">>, instruction))

_extract_text(text, instruction) ==
    IF instruction = None THEN Raise("AttributeError")
    ELSE With(LineWithAllWords(text, instruction),
              LAMBDA line :
                  IF line # NoMatch THEN Return(line)
                  ELSE With(LabelledValue(text, instruction, Separators),
                            LAMBDA m :
                                IF m # NoMatch THEN Return(strip(m))
                                ELSE Return(<<"N", "o", " ", "t", "e", "x", "t", " ", "f", "o", "u", "n", "d", " ", "f", "o", "r", ":", " ">> \o instruction)))

\* the body of the loop of _extract_with_schema for one field
SimField(text, field) ==
    IF "name" \notin DOMAIN field THEN Raise("KeyError")
    ELSE
    LET field_type == Get(field, "type", "text")
        instruction == Get(field, "instruction", <<>>)
    IN  IF field_type = "currency" THEN _extract_currency(text, instruction)
        ELSE IF field_type = "number" THEN _extract_number(text, instruction)
        ELSE IF field_type = "date" THEN _extract_date(text, instruction)
        ELSE _extract_text(text, instruction)

RECURSIVE SimLoop(_, _, _)
SimLoop(text, schema, extracted) ==
    IF schema = <<>> THEN Return(extracted)
    ELSE With(SimField(text, Head(schema)),
              LAMBDA r :
                  IF r.raised # "" THEN r
                  ELSE SimLoop(text, Tail(schema),
                               Put(extracted, Head(schema)["name"], r.value)))

_extract_with_schema(text, schema) == SimLoop(text, schema, <<>>)

\* What process_document_with_schema returns on a processor whose attribute
\* processing_history is history.
SimResult(history, document_text, schema_json) ==
    IF ~schema_json.valid
    THEN Return([success |-> FALSE])
    ELSE With(_extract_with_schema(document_text, schema_json.schema),
              LAMBDA r :
                  IF r.raised # "" THEN r
                  ELSE LET total_fields == Len(schema_json.schema)
                           extracted_fields ==
                               Cardinality({k \in DOMAIN r.value : r.value[k] # <<>>})
                       IN  Return([success |-> TRUE,
                                   data |-> r.value,
                                   confidence |-> IF total_fields > 0
                                                  THEN Fraction(extracted_fields, total_fields)
                                                  ELSE Zero,
                                   schema_used |-> schema_json.schema]))


----------------------------------------------------------------------------
(* src/blueprint_builder.py: validate_blueprint_schema *)

\* f"{i}" of an index i >= 0
RECURSIVE Decimal(_)
Decimal(n) ==
    IF n < 10
    THEN <<(<<"0", "1", "2", "3", "4", "5", "6", "7", "8", "9">>)[n + 1]>>
    ELSE Decimal(n \div 10) \o Decimal(n % 10)

\* f"{field_type}" of the type of a field
TypeText(field_type) ==
    CASE field_type = "text" -> <<"t", "e", "x", "t">>
      [] field_type = "currency" -> <<"c", "u", "r", "r", "e", "n", "c", "y">>
      [] field_type = "number" -> <<"n", "u", "m", "b", "e", "r">>
      [] field_type = "date" -> <<"d", "a", "t", "e">>
      [] field_type = "string" -> <<"s", "t", "r", "i", "n", "g">>
      [] field_type = "None" -> <<"N", "o", "n", "e">>

\* the errors that the loop body appends for field i (counted from 0) of schema
FieldErrors(schema, i) ==
    LET field == schema[i + 1]
        prefix == <<"F", "i", "e", "l", "d", " ">> \o Decimal(i) \o <<":", " ">>
        field_type == Get(field, "type", "text")
    IN  (IF "name" \notin DOMAIN field
         THEN <<prefix \o <<"M", "i", "s", "s", "i", "n", "g", " ", "r", "e", "q", "u", "i", "r", "e", "d", " ", "'", "n", "a", "m", "e", "'", " ", "p", "r", "o", "p", "e", "r", "t", "y">>>>
         ELSE IF \E j \in 1..i : /\ "name" \in DOMAIN schema[j]
                                 /\ schema[j]["name"] = field["name"]
         THEN <<prefix \o <<"D", "u", "p", "l", "i", "c", "a", "t", "e", " ", "f", "i", "e", "l", "d", " ", "n", "a", "m", "e", " ", "'">> \o Format(field["name"]) \o <<"'">>>>
         ELSE <<>>)
        \o (IF "instruction" \notin DOMAIN field
            THEN <<prefix \o <<"M", "i", "s", "s", "i", "n", "g", " ", "r", "e", "q", "u", "i", "r", "e", "d", " ", "'", "i", "n", "s", "t", "r", "u", "c", "t", "i", "o", "n", "'", " ", "p", "r", "o", "p", "e", "r", "t", "y">>>>
            ELSE <<>>)
        \o (IF field_type \notin {"text", "currency", "number", "date"}
            THEN <<prefix \o <<"I", "n", "v", "a", "l", "i", "d", " ", "f", "i", "e", "l", "d", " ", "t", "y", "p", "e", " ", "'">> \o TypeText(field_type)
                   \o <<"'", ".", " ", "M", "u", "s", "t", " ", "b", "e", " ", "o", "n", "e", " ", "o", "f", ":", " ", "t", "e", "x", "t", ",", " ", "c", "u", "r", "r", "e", "n", "c", "y", ",", " ", "n", "u", "m", "b", "e", "r", ",", " ", "d", "a", "t", "e">>>>
            ELSE <<>>)

RECURSIVE SchemaErrors(_, _)
SchemaErrors(schema, n) ==
    IF n = 0 THEN <<>>
    ELSE SchemaErrors(schema, n - 1) \o FieldErrors(schema, n - 1)

validate_blueprint_schema(schema) ==
    IF schema = <<>>
    THEN [valid |-> FALSE, errors |-> <<<<"S", "c", "h", "e", "m", "a", " ", "m", "u", "s", "t", " ", "c", "o", "n", "t", "a", "i", "n", " ", "a", "t", " ", "l", "e", "a", "s", "t", " ", "o", "n", "e", " ", "f", "i", "e", "l", "d">>>>]
    ELSE With(SchemaErrors(schema, Len(schema)),
              LAMBDA errors : [valid |-> errors = <<>>, errors |-> errors])

----------------------------------------------------------------------------
(* Bounds and the inputs of the calls *)

\* the most lines of a document text given to a call with at most one field
MaxLines == 2

\* the most fields of a schema
MaxFields == 2

\* the most calls made on one simulation processor
MaxHistory == 3

\* sequences over S of length at most n
SeqsUpTo(S, n) == UNION {[1..k -> S] : k \in 0..n}

LinePool ==
    { <<"T", "o", "t", "a", "l", ":", " ", "$", "1", ",", "2", "3", "4", ".", "5", "6">>,
      <<"V", "e", "n", "d", "o", "r", ":", " ", "H", "o", "m", "e", " ", "D", "e", "p", "o", "t">>,
      <<"D", "a", "t", "e", ":", " ", "1", "2", "/", "2", "0", "/", "2", "0", "2", "5">>,
      <<"S", "h", "i", "p", "p", "e", "d", " ", "2", "0", "2", "5", "-", "1", "2", "-", "2", "6">>,
      <<"R", "e", "f", " ", "7", ",", "5", "0", "0", ".", "0", "0">>,
      <<"T", "h", "a", "n", "k", " ", "y", "o", "u">>,
      <<"S", "u", "p", "p", "l", "i", "e", "r", " ", "N", "a", "m", "e", " ", "-", " ", "A", "c", "m", "e">>,
      <<"v", "e", "n", "d", "o", "r">> }

Texts == {JoinLines(ls) : ls \in SeqsUpTo(LinePool, MaxLines)}

Invoice == <<"V", "e", "n", "d", "o", "r", ":", " ", "H", "o", "m", "e", " ", "D", "e", "p", "o", "t", "\n", "D", "a", "t", "e", ":", " ", "1", "2", "/", "2", "0", "/", "2", "0", "2", "5", "\n", "T", "o", "t", "a", "l", ":", " ", "$", "8", "8", "1", ".", "2", "7">>

Documents == {Invoice, <<"T", "h", "a", "n", "k", " ", "y", "o", "u">>}

OcrTexts == {<<>>, <<"Q", "t", "y", " ", "5">>}

FieldPool ==
    { [name |-> <<"T", "o", "t", "a", "l">>, type |-> "currency", instruction |-> <<"t", "o", "t", "a", "l", " ", "a", "m", "o", "u", "n", "t">>,
       required |-> TRUE],
      [name |-> <<"V", "e", "n", "d", "o", "r">>, type |-> "text", instruction |-> <<"s", "u", "p", "p", "l", "i", "e", "r", " ", "n", "a", "m", "e">>],
      [name |-> <<"I", "n", "v", "o", "i", "c", "e", " ", "D", "a", "t", "e">>, type |-> "date", instruction |-> <<"i", "n", "v", "o", "i", "c", "e", " ", "d", "a", "t", "e">>,
       required |-> TRUE],
      [name |-> <<"Q", "t", "y">>, type |-> "number", instruction |-> <<"i", "t", "e", "m", " ", "c", "o", "u", "n", "t">>,
       required |-> FALSE],
      \* a type that is none of the four
      [name |-> <<"V", "e", "n", "d", "o", "r">>, type |-> "string", instruction |-> <<"s", "u", "p", "p", "l", "i", "e", "r", " ", "n", "a", "m", "e">>],
      \* instruction present but null, no type
      [name |-> <<"V", "e", "n", "d", "o", "r">>, instruction |-> None],
      \* type present but null
      [name |-> <<"T", "o", "t", "a", "l">>, type |-> "None", instruction |-> <<"t", "o", "t", "a", "l", " ", "a", "m", "o", "u", "n", "t">>],
      \* no name
      [type |-> "text", instruction |-> <<"s", "u", "p", "p", "l", "i", "e", "r", " ", "n", "a", "m", "e">>],
      \* no instruction
      [name |-> <<"V", "e", "n", "d", "o", "r">>, type |-> "text"],
      \* a field of which no document speaks
      [name |-> <<"N", "o", "t", "e", "s">>, type |-> "text", instruction |-> <<"r", "e", "m", "a", "r", "k", "s">>,
       required |-> TRUE] }

Schemas == SeqsUpTo(FieldPool, MaxFields)

\* the schemas and dicts given to the confidence computations; a schema has
\* up to MaxFields + 1 fields, and may name a field twice
ConfidenceFieldPool ==
    { [name |-> <<"T", "o", "t", "a", "l">>, type |-> "currency", instruction |-> <<"t", "o", "t", "a", "l", " ", "a", "m", "o", "u", "n", "t">>],
      [name |-> <<"V", "e", "n", "d", "o", "r">>, type |-> "text", instruction |-> <<"s", "u", "p", "p", "l", "i", "e", "r", " ", "n", "a", "m", "e">>],
      [name |-> <<"Q", "t", "y">>, type |-> "number", instruction |-> <<"i", "t", "e", "m", " ", "c", "o", "u", "n", "t">>] }

ConfidenceSchemas == SeqsUpTo(ConfidenceFieldPool, MaxFields + 1)

ValuePool ==
    { <<>>, <<"N", "o", " ", "t", "e", "x", "t", " ", "f", "o", "u", "n", "d", " ", "f", "o", "r", ":", " ", "V", "e", "n", "d", "o", "r">>, <<"H", "o", "m", "e", " ", "D", "e", "p", "o", "t">>, <<"N", "o", " ", "5", " ", "M", "a", "i", "n", " ", "S", "t">> }

NamesOf(schema) == {schema[k]["name"] : k \in 1..Len(schema)}

\* the (text, schema) pairs of the extraction calls: every text with every
\* schema of at most one field, every document with every schema
TextSchemaPairs ==
    (Texts \X SeqsUpTo(FieldPool, 1)) \cup (Documents \X Schemas)

\* texts and fields for single cases of the strategies, each text given to
\* process_document_with_schema with every schema of one field
EdgeTexts ==
    { <<"V", "e", "n", "d", "o", "r", ":", ":", " ", "H", "o", "m", "e", " ", "D", "e", "p", "o", "t">>,
      <<"D", "a", "t", "e", ":", " ", "2", "0", "2", "5", "-", "1", "2", "-", "2", "6", "\n", "I", "n", "v", "o", "i", "c", "e", " ", "D", "a", "t", "e", ":", " ", "1", "2", "/", "2", "6", "/", "2", "0", "2", "5">>,
      <<"A", "m", "o", "u", "n", "t", " ", "d", "u", "e", " ", "$", "5", "0", "0">>,
      <<"A", "m", "o", "u", "n", "t", " ", "d", "u", "e", " ", "$", "5", "0", "0", ".", "5">>,
      <<"A", "m", "o", "u", "n", "t", " ", "d", "u", "e", " ", "$", "5", ".", "5">>,
      \* a vertical tab and a form feed, which a page break leaves in a text
      <<"V", "e", "n", "d", "o", "r", ":", "U+000B", "H", "o", "m", "e", " ", "D", "e", "p", "o", "t", "\f">>,
      \* a line whose text after the name spells the sentinel of the field
      <<"V", "e", "n", "d", "o", "r", ":", " ", "N", "o", " ", "t", "e", "x", "t", " ", "f", "o", "u", "n", "d", " ", "f", "o", "r", ":", " ", "V", "e", "n", "d", "o", "r">> }

EdgeFieldPool ==
    { [name |-> <<"T", "o", "t", "a", "l">>, type |-> "currency", instruction |-> <<>>],
      [name |-> <<"V", "e", "n", "d", "o", "r">>, type |-> "text", instruction |-> <<>>] }

\* the schema and the text of the end-to-end scenario
EndToEndSchema ==
    << [name |-> <<"V", "e", "n", "d", "o", "r">>, type |-> "text", instruction |-> <<"v", "e", "n", "d", "o", "r", " ", "n", "a", "m", "e">>],
       [name |-> <<"T", "o", "t", "a", "l">>, type |-> "currency", instruction |-> <<"t", "o", "t", "a", "l", " ", "a", "m", "o", "u", "n", "t">>],
       [name |-> <<"I", "n", "v", "o", "i", "c", "e", " ", "D", "a", "t", "e">>, type |-> "date", instruction |-> <<"i", "n", "v", "o", "i", "c", "e", " ", "d", "a", "t", "e">>] >>

EdgePairs ==
    (EdgeTexts \X {<<f>> : f \in FieldPool \cup EdgeFieldPool})
    \cup (Texts \X {<<f>> : f \in EdgeFieldPool})
    \cup {<<Invoice, EndToEndSchema>>}

\* fields with a formula, which process_job alone reads, and the schemas of
\* up to MaxFields of them and of the first field of FieldPool
FormulaFieldPool ==
    { [name |-> <<"T", "o", "t", "a", "l">>, type |-> "currency", instruction |-> <<"t", "o", "t", "a", "l", " ", "a", "m", "o", "u", "n", "t">>,
       required |-> TRUE, formula |-> <<"T", "o", "t", "a", "l", " ", "*", " ", "2">>],
      [name |-> <<"D", "o", "u", "b", "l", "e">>, type |-> "other", instruction |-> <<"x">>,
       formula |-> <<"T", "o", "t", "a", "l", " ", "+", " ", "T", "o", "t", "a", "l">>],
      [name |-> <<"T", "a", "x">>, type |-> "currency", instruction |-> <<"t", "a", "x">>,
       required |-> TRUE, formula |-> <<"T", "o", "t", "a", "l">>],
      \* a null formula
      [name |-> <<"V", "e", "n", "d", "o", "r">>, type |-> "text", instruction |-> <<"v", "e", "n", "d", "o", "r">>,
       formula |-> None],
      [name |-> <<"T", "o", "t", "a", "l">>, type |-> "currency", instruction |-> <<"t", "o", "t", "a", "l", " ", "a", "m", "o", "u", "n", "t">>,
       required |-> TRUE] }

FormulaSchemas == SeqsUpTo(FormulaFieldPool, MaxFields)

\* the arguments of process_document_with_schema once the two OCR calls have
\* returned, which are those of _extract_values_from_structured_output
DocumentCalls(op) ==
    {[op |-> op, text_content |-> p[1], ocr_content |-> <<>>, schema |-> p[2]] :
        p \in EdgePairs}
    \cup
    {[op |-> op, text_content |-> t, ocr_content |-> <<>>, schema |-> s] :
        t \in Texts, s \in SeqsUpTo(FieldPool, 1)}
    \cup
    {[op |-> op, text_content |-> t, ocr_content |-> o, schema |-> s] :
        t \in Documents, s \in Schemas, o \in OcrTexts}

\* the calls of the stateless processors
Calls ==
    DocumentCalls("process_document_with_schema")
    \cup
    DocumentCalls("_extract_values_from_structured_output")
    \cup
    {[op |-> "parse_pdf_node", text_content |-> p[1], user_schema |-> p[2]] :
        p \in TextSchemaPairs}
    \cup
    {[op |-> "process_job", secret_ok |-> TRUE, schema_json |-> Json(p[2]),
      markdown_content |-> p[1]] : p \in TextSchemaPairs}
    \cup
    {[op |-> "process_job", secret_ok |-> TRUE, schema_json |-> Json(s),
      markdown_content |-> t] : t \in Documents, s \in FormulaSchemas}
    \cup
    {[op |-> "process_job", secret_ok |-> ok, schema_json |-> j,
      markdown_content |-> Invoice] :
        ok \in BOOLEAN, j \in {EmptyJson, InvalidJson, Json(<<>>)}}
    \cup
    {[op |-> "validate_blueprint_schema", schema |-> s] : s \in Schemas}
    \cup
    UNION {{[op |-> o, extracted_data |-> d, schema |-> s] :
               d \in [NamesOf(s) -> ValuePool],
               o \in {"_calculate_confidence", "processing_engine_calculate_confidence"}} :
           s \in ConfidenceSchemas}

\* the calls made on the simulation processor
SimDocuments == {Invoice, <<"T", "h", "a", "n", "k", " ", "y", "o", "u">>}

SimSchemaJsons ==
    { InvalidJson,
      Json(<<>>),
      Json(<< [name |-> <<"V", "e", "n", "d", "o", "r">>, type |-> "text", instruction |-> <<"v", "e", "n", "d", "o", "r">>],
              [name |-> <<"T", "o", "t", "a", "l">>, type |-> "currency", instruction |-> <<"t", "o", "t", "a", "l", " ", "a", "m", "o", "u", "n", "t">>] >>),
      Json(<< [name |-> <<"I", "n", "v", "o", "i", "c", "e", " ", "D", "a", "t", "e">>, type |-> "date", instruction |-> <<"i", "n", "v", "o", "i", "c", "e", " ", "d", "a", "t", "e">>],
              [name |-> <<"N", "o", "t", "e", "s">>, type |-> "text", instruction |-> <<"r", "e", "m", "a", "r", "k", "s">>] >>),
      Json(<< [name |-> <<"V", "e", "n", "d", "o", "r">>, instruction |-> None] >>) }

----------------------------------------------------------------------------
(* The state *)

VARIABLES
    call,                \* the call under way or just returned, with its inputs
    ret,                 \* its outcome; Pending until it returns
    processing_history,  \* the attribute of the simulation processor
    trace,               \* the calls made on the processors that keep a trace, with outcomes
    frame,               \* the locals of the call that such a processor runs
    db,                  \* the tables of the database of the API server
    pending,             \* the handlers of the API server that wait at an await
    users_db,            \* the attributes of the email processor
    blueprints_db,
    jobs_db,
    rate_limiter,
    utcnow,              \* the clock that datetime.utcnow() reads, in seconds
    received,            \* the emails given to the email processor, with time and status
    blueprints,          \* the attributes of the blueprint builder
    users_to_blueprints,
    clock,               \* the clock that the blueprint builder reads, in seconds
    utc_offset,          \* the seconds by which the local time of the builder is ahead of UTC
    files,               \* the files of /tmp that the runs of the engine task have left
    tasks,               \* the runs of the engine task in flight, in the order of their requests
    processing_runs      \* the runs of process_document_synchronously, by document

sim_vars == <<processing_history, trace, frame>>
api_vars == <<db, pending>>
email_vars == <<users_db, blueprints_db, jobs_db, rate_limiter, utcnow, received>>
builder_vars == <<blueprints, users_to_blueprints, clock, utc_offset>>
task_vars == <<files, tasks>>
other_vars == <<builder_vars, task_vars, processing_runs>>
vars == <<call, ret, sim_vars, api_vars, email_vars, other_vars>>

\* no call runs: there are no locals
NoFrame == [at |-> "idle"]

\* the variables of a program that a specification does not run
IdleSim == processing_history = <<>> /\ trace = <<>> /\ frame = NoFrame

IdleApi == db = <<>> /\ pending = <<>>

IdleEmail ==
    /\ users_db = <<>>
    /\ blueprints_db = <<>>
    /\ jobs_db = <<>>
    /\ rate_limiter = <<>>
    /\ utcnow = 0
    /\ received = <<>>

IdleBuilder ==
    blueprints = <<>> /\ users_to_blueprints = <<>> /\ clock = 0 /\ utc_offset = 0

IdleOther == IdleBuilder /\ files = {} /\ tasks = <<>> /\ processing_runs = <<>>

Pending == [raised |-> "pending", value |-> None]
NoCall == [op |-> "none"]

Returned == ret.raised = ""

----------------------------------------------------------------------------
(* The stateless processors: a call is drawn, then its handler runs *)

Init ==
    /\ call \in Calls
    /\ ret = Pending
    /\ IdleSim
    /\ IdleApi
    /\ IdleEmail
    /\ IdleOther

Run(op, outcome) ==
    /\ call.op = op
    /\ ret.raised = "pending"
    /\ ret' = outcome
    /\ UNCHANGED <<call, sim_vars, api_vars, email_vars, other_vars>>

ProcessDocument ==
    /\ call.op = "process_document_with_schema"
    /\ Run("process_document_with_schema",
           process_document_with_schema(call.text_content, call.ocr_content, call.schema))

ExtractValuesFromStructuredOutput ==
    /\ call.op = "_extract_values_from_structured_output"
    /\ Run("_extract_values_from_structured_output",
           _extract_values_from_structured_output(
               call.text_content, call.ocr_content, call.schema))

CalculateConfidence ==
    /\ call.op = "_calculate_confidence"
    /\ Run("_calculate_confidence",
           Return(_calculate_confidence(call.extracted_data, call.schema)))

EngineCalculateConfidence ==
    /\ call.op = "processing_engine_calculate_confidence"
    /\ Run("processing_engine_calculate_confidence",
           Return(processing_engine_calculate_confidence(call.extracted_data, call.schema)))

ParsePdfNode ==
    /\ call.op = "parse_pdf_node"
    /\ Run("parse_pdf_node", parse_pdf_node(call.text_content, call.user_schema))

ProcessJob ==
    /\ call.op = "process_job"
    /\ Run("process_job",
           process_job(call.secret_ok, call.schema_json, call.markdown_content))

ValidateBlueprintSchema ==
    /\ call.op = "validate_blueprint_schema"
    /\ Run("validate_blueprint_schema", Return(validate_blueprint_schema(call.schema)))

Next ==
    \/ ProcessDocument
    \/ ExtractValuesFromStructuredOutput
    \/ CalculateConfidence
    \/ EngineCalculateConfidence
    \/ ParsePdfNode
    \/ ProcessJob
    \/ ValidateBlueprintSchema

Spec == Init /\ [][Next]_vars

----------------------------------------------------------------------------
(* The simulation processor: calls follow one another on one instance *)

InitSim ==
    /\ call = NoCall
    /\ ret = Pending
    /\ IdleSim
    /\ IdleApi
    /\ IdleEmail
    /\ IdleOther

\* process_document_with_schema: a result that is returned without an
\* exception and with success is appended to processing_history
SimProcess ==
    \E document_text \in SimDocuments, schema_json \in SimSchemaJsons :
        LET r == SimResult(processing_history, document_text, schema_json)
        IN  /\ Len(trace) < MaxHistory
            /\ call' = [op |-> "sim_process_document_with_schema",
                        document_text |-> document_text, schema_json |-> schema_json]
            /\ ret' = r
            /\ processing_history' =
                   IF r.raised = "" /\ r.value.success
                   THEN Append(processing_history, r.value)
                   ELSE processing_history
            /\ trace' = Append(trace, [document_text |-> document_text,
                                       schema_json |-> schema_json,
                                       outcome |-> r])
            /\ UNCHANGED <<frame, api_vars, email_vars, other_vars>>

NextSim == SimProcess

SpecSim == InitSim /\ [][NextSim]_vars

----------------------------------------------------------------------------
(* src/validation/standardized_api_server.py and local_api_server.py: the
   API server over its database, the file test_db.sqlite that both servers
   open.  A table is the sequence of its rows in the order of insertion;
   db.server tells which of the two servers runs, db.schema which of them
   has created the tables, and db.in_transaction whether the connection conn
   holds a transaction that it has begun and not committed. *)

\* the most rows of the tables projects, api_keys, documents and webhooks
MaxProjects == 2
MaxApiKeys == 2
MaxDocuments == 2
MaxWebhooks == 1

\* the most handlers that wait at an await at one time
MaxWaiting == 1

\* str(uuid.uuid4()): an id that no row of the table has
uuid4(prefix, table) == prefix \o Decimal(Len(table) + 1)

\* JSONResponse(status_code, content=error_response(message, code)) and
\* HTTPException(status_code, detail), and success_response(data)
error_response(status_code, code) ==
    [status_code |-> status_code, success |-> FALSE, code |-> code, data |-> None]

success_response(data) ==
    [status_code |-> 200, success |-> TRUE, code |-> "", data |-> data]

\* what a handler leaves: the tables and the response
Outcome(tables, response) == [db |-> tables, response |-> response]

get_project_from_api_key(api_keys, api_key) ==
    IF api_key = None \/ api_key = <<>> THEN None
    ELSE IF ~startswith(api_key, <<"B", "e", "a", "r", "e", "r", " ">>) THEN None
    ELSE LET key == Slice(api_key, 8, Len(api_key) + 1)
             rows == SelectSeq(api_keys, LAMBDA r : r.key = key /\ r.revoked_at = None)
         IN  IF rows = <<>> THEN None ELSE rows[1].project_id

\* the checks of the Authorization header with which a handler begins: the
\* response that ends the handler, or <<>> when it goes on
\* Unauthorized answering every refused header as an unknown key
Unauthorized_forbidding_all(tables, authorization) ==
    IF get_project_from_api_key(tables.api_keys, authorization) = None
    THEN <<error_response(403, IF tables.server = "standardized"
                               THEN "INVALID_API_KEY" ELSE "Invalid API key")>>
    ELSE <<>>

Unauthorized(tables, authorization) ==
    IF tables.server = "standardized"
    THEN IF authorization = None \/ authorization = <<>>
         THEN <<error_response(401, "MISSING_API_KEY")>>
         ELSE IF ~startswith(authorization, <<"B", "e", "a", "r", "e", "r", " ">>)
         THEN <<error_response(401, "MISSING_API_KEY")>>
         ELSE IF get_project_from_api_key(tables.api_keys, authorization) = None
         THEN <<error_response(403, "INVALID_API_KEY")>>
         ELSE <<>>
    ELSE IF get_project_from_api_key(tables.api_keys, authorization) = None
         THEN <<error_response(403, "Invalid API key")>>
         ELSE <<>>

\* the tables of the standardized server give every row a column updated_at
\* that is NOT NULL; the local server names the column in its INSERT INTO
\* documents only, so that on such tables its other INSERTs raise
\* sqlite3.IntegrityError
InsertFails(tables) == tables.server = "local" /\ tables.schema = "standardized"

\* conn.execute of an INSERT that raises: the transaction that the statement
\* has begun stays open, and with it the lock of conn on the file
Failed(tables) == [tables EXCEPT !.in_transaction = TRUE]

\* conn.commit()
Commit(tables) == [tables EXCEPT !.in_transaction = FALSE]

\* UPDATE documents SET changes WHERE id = document_id
UpdateDocument(documents, document_id, changes) ==
    [i \in DOMAIN documents |->
        IF documents[i].id = document_id
        THEN [k \in DOMAIN documents[i] |->
                 IF k \in DOMAIN changes THEN changes[k] ELSE documents[i][k]]
        ELSE documents[i]]

\* SELECT ... FROM documents WHERE id = ? AND status != 'DELETED', without the
\* test of the project
SelectDocument_of_any_project(documents, document_id, project_id) ==
    SelectSeq(documents, LAMBDA r : r.id = document_id /\ r.status # "DELETED")

\* SELECT ... FROM documents WHERE id = ? AND project_id = ? AND status != 'DELETED'
SelectDocument(documents, document_id, project_id) ==
    SelectSeq(documents, LAMBDA r : /\ r.id = document_id
                                    /\ r.project_id = project_id
                                    /\ r.status # "DELETED")

create_project(tables, project) ==
    LET project_id == uuid4(<<"p">>, tables.projects)
    IN  IF InsertFails(tables)
        THEN Outcome(Failed(tables), error_response(500, "Internal Server Error"))
        ELSE Outcome(Commit([tables EXCEPT !.projects =
                                Append(@, [id |-> project_id, name |-> project.name])]),
                     success_response([id |-> project_id, name |-> project.name]))

create_api_key(tables, project_id) ==
    IF SelectSeq(tables.projects, LAMBDA r : r.id = project_id) = <<>>
    THEN Outcome(tables, error_response(404, IF tables.server = "standardized"
                                             THEN "PROJECT_NOT_FOUND"
                                             ELSE "Project not found"))
    ELSE IF InsertFails(tables)
    THEN Outcome(Failed(tables), error_response(500, "Internal Server Error"))
    ELSE LET key == uuid4(<<"s", "k", "_">>, tables.api_keys)
         IN  Outcome(Commit([tables EXCEPT !.api_keys =
                                Append(@, [key |-> key, project_id |-> project_id,
                                           revoked_at |-> None])]),
                     success_response([key |-> key, project_id |-> project_id]))

\* create_document without the check for a duplicate
create_document_always_inserting(tables, document, authorization) ==
    LET project_id == get_project_from_api_key(tables.api_keys, authorization)
        document_id == uuid4(<<"d">>, tables.documents)
    IN  IF Unauthorized(tables, authorization) # <<>>
        THEN Outcome(tables, Unauthorized(tables, authorization)[1])
        ELSE IF document.project_id # project_id
        THEN Outcome(tables, error_response(403, IF tables.server = "standardized"
                                                 THEN "PROJECT_MISMATCH"
                                                 ELSE "Project ID mismatch"))
        ELSE Outcome(Commit([tables EXCEPT !.documents =
                          Append(@, [id |-> document_id, project_id |-> project_id,
                                     sha256 |-> document.sha256, status |-> "CREATED",
                                     chunk_count |-> 0, error |-> None])]),
                     success_response([id |-> document_id, status |-> "CREATED"]))

create_document(tables, document, authorization) ==
    LET project_id == get_project_from_api_key(tables.api_keys, authorization)
        existing == SelectSeq(tables.documents,
                              LAMBDA r : /\ r.project_id = project_id
                                         /\ r.sha256 = document.sha256
                                         /\ r.status # "DELETED")
        document_id == uuid4(<<"d">>, tables.documents)
    IN  IF Unauthorized(tables, authorization) # <<>>
        THEN Outcome(tables, Unauthorized(tables, authorization)[1])
        ELSE IF document.project_id # project_id
        THEN Outcome(tables, error_response(403, IF tables.server = "standardized"
                                                 THEN "PROJECT_MISMATCH"
                                                 ELSE "Project ID mismatch"))
        ELSE IF existing # <<>>
        THEN Outcome(tables, success_response([id |-> existing[1].id,
                                               status |-> existing[1].status,
                                               deduped |-> TRUE]))
        ELSE Outcome(Commit([tables EXCEPT !.documents =
                          Append(@, [id |-> document_id, project_id |-> project_id,
                                     sha256 |-> document.sha256, status |-> "CREATED",
                                     chunk_count |-> 0, error |-> None])]),
                     success_response([id |-> document_id, status |-> "CREATED"]))

get_document(tables, document_id, authorization) ==
    LET project_id == get_project_from_api_key(tables.api_keys, authorization)
        rows == IF tables.server = "standardized"
                THEN SelectDocument(tables.documents, document_id, project_id)
                ELSE SelectSeq(tables.documents,
                               LAMBDA r : r.id = document_id /\ r.project_id = project_id)
    IN  IF Unauthorized(tables, authorization) # <<>>
        THEN Outcome(tables, Unauthorized(tables, authorization)[1])
        ELSE IF rows = <<>>
        THEN Outcome(tables, error_response(404, IF tables.server = "standardized"
                                                 THEN "DOCUMENT_NOT_FOUND"
                                                 ELSE "Document not found"))
        ELSE Outcome(tables, success_response(rows[1]))

\* upload_document up to 'await file.read()': the response that ends the
\* handler there, or <<>> when it goes on to read the file
upload_document(tables, document_id, authorization) ==
    LET project_id == get_project_from_api_key(tables.api_keys, authorization)
        doc == SelectDocument(tables.documents, document_id, project_id)
    IN  IF Unauthorized(tables, authorization) # <<>>
        THEN Unauthorized(tables, authorization)
        ELSE IF doc = <<>>
        THEN <<error_response(404, IF tables.server = "standardized"
                                   THEN "DOCUMENT_NOT_FOUND" ELSE "Document not found")>>
        ELSE IF tables.server = "standardized" /\ doc[1].status \notin {"CREATED", "UPLOADED"}
        THEN <<error_response(400, "INVALID_DOCUMENT_STATE")>>
        ELSE IF tables.server = "local" /\ doc[1].status # "CREATED"
        THEN <<error_response(400, "Document not in CREATED state")>>
        ELSE <<>>

\* upload_document from the return of 'await file.read()' on; file tells what
\* the read gave: "content", "empty", or "unreadable" when it raised
upload_document_read(tables, document_id, file) ==
    IF file = "unreadable"
    THEN Outcome(tables, IF tables.server = "standardized"
                         THEN error_response(400, "FILE_READ_ERROR")
                         ELSE error_response(500, "Internal Server Error"))
    ELSE IF file = "empty"
    THEN Outcome(tables, error_response(400, IF tables.server = "standardized"
                                             THEN "EMPTY_FILE" ELSE "Empty file"))
    ELSE Outcome(Commit([tables EXCEPT !.documents =
                            UpdateDocument(@, document_id, [status |-> "UPLOADED"])]),
                 success_response([status |-> "UPLOADED"]))

\* complete_document without the test of the status
complete_document_in_any_status(tables, document_id, authorization) ==
    LET project_id == get_project_from_api_key(tables.api_keys, authorization)
        doc == SelectDocument(tables.documents, document_id, project_id)
    IN  IF Unauthorized(tables, authorization) # <<>>
        THEN Outcome(tables, Unauthorized(tables, authorization))
        ELSE IF doc = <<>>
        THEN Outcome(tables, <<error_response(404, IF tables.server = "standardized"
                                                   THEN "DOCUMENT_NOT_FOUND"
                                                   ELSE "Document not found")>>)
        ELSE Outcome(Commit([tables EXCEPT !.documents =
                          UpdateDocument(@, document_id, [status |-> "PROCESSING"])]),
                     <<>>)

\* complete_document up to the 'await asyncio.sleep(0.5)' of
\* process_document_synchronously: with a response when the handler ends
\* before it, else with <<>> and the document PROCESSING
complete_document(tables, document_id, authorization) ==
    LET project_id == get_project_from_api_key(tables.api_keys, authorization)
        doc == SelectDocument(tables.documents, document_id, project_id)
    IN  IF Unauthorized(tables, authorization) # <<>>
        THEN Outcome(tables, Unauthorized(tables, authorization))
        ELSE IF doc = <<>>
        THEN Outcome(tables, <<error_response(404, IF tables.server = "standardized"
                                                   THEN "DOCUMENT_NOT_FOUND"
                                                   ELSE "Document not found")>>)
        ELSE IF doc[1].status # "UPLOADED"
        THEN Outcome(tables, <<error_response(400, IF tables.server = "standardized"
                                                   THEN "UPLOAD_REQUIRED"
                                                   ELSE "Upload required first")>>)
        ELSE Outcome(Commit([tables EXCEPT !.documents =
                          UpdateDocument(@, document_id, [status |-> "PROCESSING"])]),
                     <<>>)

\* the chunks that process_document_synchronously inserts
chunks ==
    << [chunk_index |-> 0, content_md |-> <<"T", "h", "i", "s", " ", "d", "o", "c", "u", "m", "e", "n", "t", " ", "c", "o", "n", "t", "a", "i", "n", "s", " ", "i", "m", "p", "o", "r", "t", "a", "n", "t", " ", "i", "n", "f", "o", "r", "m", "a", "t", "i", "o", "n", " ", "a", "b", "o", "u", "t", " ", "t", "h", "e", " ", "p", "r", "o", "j", "e", "c", "t", " ", "r", "e", "q", "u", "i", "r", "e", "m", "e", "n", "t", "s", " ", "a", "n", "d", " ", "s", "p", "e", "c", "i", "f", "i", "c", "a", "t", "i", "o", "n", "s", ".">>],
       [chunk_index |-> 1, content_md |-> <<"T", "h", "e", " ", "s", "y", "s", "t", "e", "m", " ", "s", "h", "o", "u", "l", "d", " ", "p", "r", "o", "c", "e", "s", "s", " ", "d", "o", "c", "u", "m", "e", "n", "t", "s", " ", "e", "f", "f", "i", "c", "i", "e", "n", "t", "l", "y", " ", "a", "n", "d", " ", "e", "x", "t", "r", "a", "c", "t", " ", "m", "e", "a", "n", "i", "n", "g", "f", "u", "l", " ", "c", "o", "n", "t", "e", "n", "t", " ", "f", "o", "r", " ", "v", "e", "c", "t", "o", "r", " ", "s", "e", "a", "r", "c", "h", ".">>],
       [chunk_index |-> 2, content_md |-> <<"K", "e", "y", " ", "f", "e", "a", "t", "u", "r", "e", "s", " ", "i", "n", "c", "l", "u", "d", "e", " ", "d", "o", "c", "u", "m", "e", "n", "t", " ", "u", "p", "l", "o", "a", "d", ",", " ", "p", "r", "o", "c", "e", "s", "s", "i", "n", "g", ",", " ", "c", "h", "u", "n", "k", "i", "n", "g", ",", " ", "e", "m", "b", "e", "d", "d", "i", "n", "g", " ", "g", "e", "n", "e", "r", "a", "t", "i", "o", "n", ",", " ", "a", "n", "d", " ", "v", "e", "c", "t", "o", "r", " ", "s", "t", "o", "r", "a", "g", "e", ".">>],
       [chunk_index |-> 3, content_md |-> <<"T", "h", "e", " ", "a", "r", "c", "h", "i", "t", "e", "c", "t", "u", "r", "e", " ", "f", "o", "l", "l", "o", "w", "s", " ", "a", "n", " ", "e", "v", "e", "n", "t", "-", "d", "r", "i", "v", "e", "n", " ", "d", "e", "s", "i", "g", "n", " ", "w", "i", "t", "h", " ", "q", "u", "e", "u", "e", "-", "b", "a", "s", "e", "d", " ", "p", "r", "o", "c", "e", "s", "s", "i", "n", "g", " ", "f", "o", "r", " ", "s", "c", "a", "l", "a", "b", "i", "l", "i", "t", "y", ".">>] >>

\* process_document_synchronously after the sleep, and the return of
\* complete_document; failure is random.random() < 0.1.  It writes through a
\* connection of its own, thread_conn: while conn holds a transaction every
\* statement of thread_conn raises "database is locked", the UPDATE of the
\* except clause too, and the document stays PROCESSING; and on the tables of
\* the standardized server the first INSERT INTO chunks of the local server
\* raises IntegrityError.
process_document_synchronously(tables, document_id, project_id, failure) ==
    IF tables.in_transaction
    THEN Outcome(tables, success_response([status |-> "FAILED"]))
    ELSE IF failure \/ InsertFails(tables)
    THEN Outcome([tables EXCEPT !.documents =
                      UpdateDocument(@, document_id,
                                     [status |-> "FAILED",
                                      error |-> IF failure
                                                THEN <<"S", "i", "m", "u", "l", "a", "t", "e", "d", " ", "e", "n", "g", "i", "n", "e", " ", "f", "a", "i", "l", "u", "r", "e">>
                                                ELSE <<"N", "O", "T", " ", "N", "U", "L", "L", " ", "c", "o", "n", "s", "t", "r", "a", "i", "n", "t", " ", "f", "a", "i", "l", "e", "d", ":", " ", "c", "h", "u", "n", "k", "s", ".", "u", "p", "d", "a", "t", "e", "d", "_", "a", "t">>])],
                 success_response([status |-> "FAILED"]))
    ELSE Outcome([tables EXCEPT
                      !.chunks = @ \o [k \in DOMAIN chunks |->
                                          [document_id |-> document_id,
                                           project_id |-> project_id,
                                           chunk_index |-> chunks[k].chunk_index]],
                      !.documents =
                          UpdateDocument(@, document_id,
                                         [status |-> "READY",
                                          chunk_count |-> Len(chunks),
                                          error |-> None])],
                 success_response([status |-> "READY"]))

\* the queries given to query_documents
Queries == {<<"d", "o", "c", "u", "m", "e", "n", "t", " ", "u", "p", "l", "o", "a", "d">>, <<"i", "n", "v", "o", "i", "c", "e">>}

\* sum(1 for term in query_terms if term in content), for each query and each
\* of the chunks: the terms are the words of the lowercased query
relevance_score ==
    [query \in Queries |->
        [k \in DOMAIN chunks |->
            LET q == lower(query)
                starts == {j \in 1..Len(q) : /\ q[j] \notin Whitespace
                                              /\ (j = 1 \/ q[j - 1] \in Whitespace)}
                Term(j) == Slice(q, j, j + RunLength(q, j, {q[i] : i \in 1..Len(q)} \ Whitespace))
            IN  Cardinality({j \in starts : Contains(Term(j), lower(chunks[k].content_md))})]]

\* the rows of table in the order of key, rows of equal key in the order they have
RECURSIVE SortedBy(_, _, _)
SortedBy(table, Key(_), keys) ==
    IF keys = <<>> THEN <<>>
    ELSE SelectSeq(table, LAMBDA r : Key(r) = Head(keys)) \o SortedBy(table, Key, Tail(keys))

query_documents(tables, query_request, authorization) ==
    LET project_id == get_project_from_api_key(tables.api_keys, authorization)
        Ready(c) == \E i \in DOMAIN tables.documents :
                        /\ tables.documents[i].id = c.document_id
                        /\ tables.documents[i].status = "READY"
        selected == SelectSeq(tables.chunks,
                        LAMBDA c : /\ c.project_id = project_id
                                   /\ Ready(c)
                                   /\ query_request.document_id \in {None, <<>>, c.document_id})
        ordered == SortedBy(selected, LAMBDA c : c.chunk_index,
                            [k \in DOMAIN chunks |-> chunks[k].chunk_index])
        \* LIMIT ?: sqlite gives every row when the limit is negative
        rows == IF query_request.top_k < 0 THEN ordered
                ELSE SubSeq(ordered, 1, Min({query_request.top_k, Len(ordered)}))
        Score(c) == relevance_score[query_request.query][c.chunk_index + 1]
        relevant_chunks == SelectSeq(rows, LAMBDA c : Score(c) > 0)
        highest == Max({0} \cup {Score(rows[i]) : i \in DOMAIN rows})
        sorted == SortedBy(relevant_chunks, Score, [i \in 1..highest |-> highest + 1 - i])
        \* relevant_chunks[:top_k]: a negative top_k cuts that many from the end
        top_chunks == IF query_request.top_k < 0
                      THEN SubSeq(sorted, 1, Len(sorted) + query_request.top_k)
                      ELSE SubSeq(sorted, 1, Min({query_request.top_k, Len(sorted)}))
    IN  IF Unauthorized(tables, authorization) # <<>>
        THEN Outcome(tables, Unauthorized(tables, authorization)[1])
        ELSE IF tables.server = "local" /\ top_chunks # <<>>
        THEN Outcome(tables, error_response(500, "Internal Server Error"))
        ELSE Outcome(tables, success_response([mode |-> "chunks", chunks |-> top_chunks]))

create_webhook(tables, webhook, authorization) ==
    LET project_id == get_project_from_api_key(tables.api_keys, authorization)
        webhook_id == uuid4(<<"w">>, tables.webhooks)
        inserted == Commit([tables EXCEPT !.webhooks =
                               Append(@, [id |-> webhook_id, project_id |-> project_id,
                                          url |-> webhook.url, events |-> webhook.events])])
    IN  IF Unauthorized(tables, authorization) # <<>>
        THEN Outcome(tables, Unauthorized(tables, authorization)[1])
        ELSE IF webhook.project_id # project_id
        THEN Outcome(tables, error_response(403, IF tables.server = "standardized"
                                                 THEN "PROJECT_MISMATCH"
                                                 ELSE "Project ID mismatch"))
        ELSE IF InsertFails(tables)
        THEN Outcome(Failed(tables), error_response(500, "Internal Server Error"))
        ELSE IF tables.server = "local"
        THEN Outcome(inserted, success_response([webhook_id |-> webhook_id]))
        ELSE IF \/ webhook.url = <<>>
                \/ ~(startswith(webhook.url, <<"h", "t", "t", "p", ":", "/", "/">>) \/ startswith(webhook.url, <<"h", "t", "t", "p", "s", ":", "/", "/">>))
        THEN Outcome(tables, error_response(400, "INVALID_WEBHOOK_URL"))
        ELSE IF webhook.events = <<>>
        THEN Outcome(tables, error_response(400, "MISSING_EVENTS"))
        ELSE Outcome(inserted, success_response([id |-> webhook_id]))

----------------------------------------------------------------------------
(* The API server.  Its handlers are coroutines of one event loop: a handler
   runs without interruption from the request to its response or to an
   await, and while it waits at 'await file.read()' or at
   'await asyncio.sleep(0.5)' the loop runs other handlers.  call is the
   handler that runs now and ret is its response; pending holds the handlers
   that wait. *)

Servers == {"standardized", "local"}

ProjectIds == {<<"p">> \o Decimal(n) : n \in 1..MaxProjects}
ProjectNames == {<<"A", "c", "m", "e">>}
DocumentIds == {<<"d">> \o Decimal(n) : n \in 1..MaxDocuments}
Hashes == {<<"3", "a", "7", "b">>, <<"9", "f", "0", "c">>}
Files == {"content", "empty", "unreadable"}
\* the url and the events of the webhooks asked for: a valid one, one with
\* a url that is not http, one without events
Webhooks ==
    { [url |-> <<"h", "t", "t", "p", "s", ":", "/", "/", "a", ".", "i", "o">>, events |-> <<"document.ready">>],
      [url |-> <<"f", "t", "p", ":", "/", "/", "a", ".", "i", "o">>, events |-> <<"document.ready">>],
      [url |-> <<"h", "t", "t", "p", "s", ":", "/", "/", "a", ".", "i", "o">>, events |-> <<>>] }

\* the Authorization headers of the requests.  Keys holds one for each key
\* that create_api_key can issue, which is the header of an unknown key as
\* long as the key is not issued; NoKeys holds no header and one without
\* "Bearer "
Keys == {<<"B", "e", "a", "r", "e", "r", " ", "s", "k", "_">> \o Decimal(n) : n \in 1..MaxApiKeys}
NoKeys == {None, <<"B", "a", "s", "i", "c", " ", "s", "k", "_", "1">>}
Headers == NoKeys \cup Keys

\* the requests of the handler op for a document: every key with every
\* document, and the headers without a key, at which the handler ends before
\* it reads the id, with one document
DocumentRequests(op) ==
    {[op |-> op, document_id |-> document_id, authorization |-> authorization] :
        document_id \in DocumentIds, authorization \in Keys}
    \cup {[op |-> op, document_id |-> <<"d", "1">>, authorization |-> authorization] :
             authorization \in NoKeys}

\* the bodies of the requests to query_documents: the queries over every
\* document, one of them over one document, and one with a top_k below zero
\* and one with a top_k that is less than the chunks of a document
QueryRequests ==
    {[query |-> query, document_id |-> None, top_k |-> 5] : query \in Queries}
    \cup {[query |-> <<"d", "o", "c", "u", "m", "e", "n", "t", " ", "u", "p", "l", "o", "a", "d">>, document_id |-> <<"d", "1">>, top_k |-> 5]}
    \cup {[query |-> <<"d", "o", "c", "u", "m", "e", "n", "t", " ", "u", "p", "l", "o", "a", "d">>, document_id |-> None, top_k |-> top_k] :
             top_k \in {-1, 2}}

\* the bodies of the requests to create_webhook: each of Webhooks for the
\* first project, and the valid one for every project
WebhookRequests ==
    {[project_id |-> <<"p", "1">>, url |-> asked.url, events |-> asked.events] :
        asked \in Webhooks}
    \cup {[project_id |-> project_id, url |-> <<"h", "t", "t", "p", "s", ":", "/", "/", "a", ".", "i", "o">>,
            events |-> <<"document.ready">>] : project_id \in ProjectIds}

\* the tables after the set-up of n projects on a directory without a
\* database file: init_db, then create_project and create_api_key for each
\* project
RECURSIVE SetUp(_, _)
SetUp(server, n) ==
    IF n = 0
    THEN [server |-> server, schema |-> server, in_transaction |-> FALSE,
          projects |-> <<>>, api_keys |-> <<>>,
          documents |-> <<>>, chunks |-> <<>>, webhooks |-> <<>>]
    ELSE With(create_project(SetUp(server, n - 1), [name |-> <<"A", "c", "m", "e">>]),
              LAMBDA created : create_api_key(created.db, created.response.data.id).db)

\* init_db.  The standardized server drops the tables and creates them: it
\* starts on empty tables.  The local server creates the tables that are not
\* there (CREATE TABLE IF NOT EXISTS): it starts on empty tables of its own,
\* on the tables and rows that an earlier run of it has left, or on those
\* that a run of the standardized server has left; a project with its key
\* is what the earlier run has left here.
StartTables ==
    {SetUp(server, 0) : server \in Servers}
    \cup {SetUp("local", 1), [SetUp("standardized", 1) EXCEPT !.server = "local"]}

InitApi ==
    /\ call = NoCall
    /\ ret = Pending
    /\ db \in StartTables
    /\ pending = <<>>
    /\ IdleSim
    /\ IdleEmail
    /\ IdleOther

\* the pending handlers without the i-th
Resumed(waiting, i) == SubSeq(waiting, 1, i - 1) \o SubSeq(waiting, i + 1, Len(waiting))

\* a handler without an await runs from the request to the response
Serve(request, outcome) ==
    /\ call = NoCall
    /\ call' = request
    /\ ret' = Return(outcome.response)
    /\ db' = outcome.db
    /\ UNCHANGED <<pending, sim_vars, email_vars, other_vars>>

\* a handler runs up to its await: it has answered (responses holds the
\* response) or it waits there with the handlers that wait already
ServeUntilAwait(request, tables, responses) ==
    /\ call = NoCall
    /\ call' = request
    /\ db' = tables
    /\ IF responses # <<>>
       THEN ret' = Return(responses[1]) /\ pending' = pending
       ELSE /\ Len(pending) < MaxWaiting
            /\ ret' = Pending
            /\ pending' = Append(pending, request)
    /\ UNCHANGED <<sim_vars, email_vars, other_vars>>

\* the i-th handler that waits runs from its await to the response
Resume(i, step, outcome) ==
    /\ call = NoCall
    /\ call' = step
    /\ ret' = Return(outcome.response)
    /\ db' = outcome.db
    /\ pending' = Resumed(pending, i)
    /\ UNCHANGED <<sim_vars, email_vars, other_vars>>

\* the handler that runs has returned or has reached its await: the event
\* loop takes the next request, or a handler whose wait is over
RunNext ==
    /\ call # NoCall
    /\ call' = NoCall
    /\ ret' = Pending
    /\ UNCHANGED <<api_vars, sim_vars, email_vars, other_vars>>

CreateProject ==
    \E name \in ProjectNames :
        LET outcome == create_project(db, [name |-> name])
        IN  /\ Len(outcome.db.projects) <= MaxProjects
            /\ Serve([op |-> "create_project", project |-> [name |-> name]], outcome)

CreateApiKey ==
    \E project_id \in ProjectIds :
        LET outcome == create_api_key(db, project_id)
        IN  /\ Len(outcome.db.api_keys) <= MaxApiKeys
            /\ Serve([op |-> "create_api_key", project_id |-> project_id], outcome)

CreateDocument ==
    \E authorization \in Headers, project_id \in ProjectIds, sha256 \in Hashes :
        LET document == [project_id |-> project_id, sha256 |-> sha256]
            outcome == create_document(db, document, authorization)
        IN  /\ authorization \in NoKeys => document = [project_id |-> <<"p", "1">>, sha256 |-> <<"3", "a", "7", "b">>]
            /\ Len(outcome.db.documents) <= MaxDocuments
            /\ Serve([op |-> "create_document", document |-> document,
                      authorization |-> authorization], outcome)

GetDocument ==
    \E request \in DocumentRequests("get_document") :
        Serve(request, get_document(db, request.document_id, request.authorization))

UploadDocument ==
    \E request \in DocumentRequests("upload_document") :
        ServeUntilAwait(request, db,
                        upload_document(db, request.document_id, request.authorization))

UploadDocumentRead ==
    \E i \in DOMAIN pending, file \in Files :
        /\ pending[i].op = "upload_document"
        /\ Resume(i, [op |-> "upload_document_read",
                      document_id |-> pending[i].document_id,
                      authorization |-> pending[i].authorization, file |-> file],
                  upload_document_read(db, pending[i].document_id, file))

CompleteDocument ==
    \E request \in DocumentRequests("complete_document") :
        LET outcome == complete_document(db, request.document_id, request.authorization)
        IN  ServeUntilAwait(request, outcome.db, outcome.response)

ProcessDocumentSynchronously ==
    \E i \in DOMAIN pending, failure \in BOOLEAN :
        /\ pending[i].op = "complete_document"
        /\ Resume(i, [op |-> "process_document_synchronously",
                      document_id |-> pending[i].document_id,
                      authorization |-> pending[i].authorization, failure |-> failure],
                  process_document_synchronously(
                      db, pending[i].document_id,
                      get_project_from_api_key(db.api_keys, pending[i].authorization),
                      failure))

QueryDocuments ==
    \E authorization \in Headers, query_request \in QueryRequests :
        /\ authorization \in NoKeys =>
               query_request = [query |-> <<"i", "n", "v", "o", "i", "c", "e">>, document_id |-> None, top_k |-> 5]
        /\ Serve([op |-> "query_documents", query_request |-> query_request,
                  authorization |-> authorization],
                 query_documents(db, query_request, authorization))

CreateWebhook ==
    \E authorization \in Headers, webhook \in WebhookRequests :
        LET outcome == create_webhook(db, webhook, authorization)
        IN  /\ authorization \in NoKeys =>
                   webhook = [project_id |-> <<"p", "1">>, url |-> <<"h", "t", "t", "p", "s", ":", "/", "/", "a", ".", "i", "o">>,
                              events |-> <<"document.ready">>]
            /\ Len(outcome.db.webhooks) <= MaxWebhooks
            /\ Serve([op |-> "create_webhook", webhook |-> webhook,
                      authorization |-> authorization], outcome)

\* a request arrives and its handler starts
Arrival ==
    \/ CreateProject
    \/ CreateApiKey
    \/ CreateDocument
    \/ GetDocument
    \/ UploadDocument
    \/ CompleteDocument
    \/ QueryDocuments
    \/ CreateWebhook

NextApi ==
    \/ Arrival
    \/ UploadDocumentRead
    \/ ProcessDocumentSynchronously
    \/ RunNext

SpecApi == InitApi /\ [][NextApi]_vars

\* the clients send a request when the last one is answered: no handler
\* starts while another waits
NextApiSequential ==
    \/ pending = <<>> /\ Arrival
    \/ UploadDocumentRead
    \/ ProcessDocumentSynchronously
    \/ RunNext

SpecApiSequential == InitApi /\ [][NextApiSequential]_vars

----------------------------------------------------------------------------
(* The email processor: src/email_processor_simulation.py *)

\* the emails that one behaviour gives to the processor
MaxEmails == 6

\* 'we'll allow 5 emails per hour per sender'
EmailsPerHour == 5
OneHour == 3600

\* the attributes of an EmailProcessor
EmailProcessor(users, stored, jobs, limiter) ==
    [users_db |-> users, blueprints_db |-> stored, jobs_db |-> jobs,
     rate_limiter |-> limiter]

\* users_db, blueprints_db and jobs_db are dicts that keep the order of
\* insertion: sequences of their values, each value under the key of its id.
\* The timestamps created_at and completed_at of the values are left out.

\* self.users_db[user_id] = {...}: a user of the id is replaced at its place,
\* and with it the blueprint_ids that add_blueprint has given it
add_user(self, user_id, email, inbox_alias) ==
    LET user == [id |-> user_id, email |-> email, inbox_alias |-> inbox_alias]
    IN  [self EXCEPT !.users_db =
            IF \E i \in DOMAIN @ : @[i].id = user_id
            THEN [i \in DOMAIN @ |-> IF @[i].id = user_id THEN user ELSE @[i]]
            ELSE Append(@, user)]

\* add_blueprint: the processor after it; the blueprint that it returns is
\* the last of blueprints_db.  The id is made from len(blueprints_db), and
\* nothing removes a blueprint, so that no id is given twice.
add_blueprint(self, user_id, blueprint_data) ==
    LET blueprint_id == <<"b", "p", "_">> \o Decimal(Len(self.blueprints_db) + 1)
    IN  [self EXCEPT
            !.blueprints_db = Append(@, [id |-> blueprint_id, user_id |-> user_id,
                                         name |-> blueprint_data.name,
                                         schema |-> blueprint_data.schema]),
            !.users_db = [i \in DOMAIN @ |->
                             IF @[i].id = user_id
                             THEN Put(@[i], "blueprint_ids",
                                      Append(Get(@[i], "blueprint_ids", <<>>), blueprint_id))
                             ELSE @[i]]]

\* the timestamps of the sender; none when the sender is not a key
TimestampsOf(limiter, sender) ==
    IF sender \in DOMAIN limiter THEN limiter[sender] ELSE <<>>

\* _check_rate_limit with one more timestamp allowed: the test is > instead of >=
_check_rate_limit_allowing_six(limiter, sender, current_time) ==
    LET one_hour_ago == current_time - OneHour
        kept == SelectSeq(TimestampsOf(limiter, sender), LAMBDA timestamp : timestamp > one_hour_ago)
    IN  IF Len(kept) > EmailsPerHour
        THEN [rate_limiter |-> Put(limiter, sender, kept), passed |-> FALSE]
        ELSE [rate_limiter |-> Put(limiter, sender, Append(kept, current_time)),
              passed |-> TRUE]

\* _check_rate_limit, reading current_time from the clock: the rate limiter
\* after the call, and the value returned
_check_rate_limit(limiter, sender, current_time) ==
    LET one_hour_ago == current_time - OneHour
        kept == SelectSeq(TimestampsOf(limiter, sender), LAMBDA timestamp : timestamp > one_hour_ago)
    IN  IF Len(kept) >= EmailsPerHour
        THEN [rate_limiter |-> Put(limiter, sender, kept), passed |-> FALSE]
        ELSE [rate_limiter |-> Put(limiter, sender, Append(kept, current_time)),
              passed |-> TRUE]

\* the users with the inbox alias, the first of them being the one found
_find_user_by_inbox_alias(users, inbox_alias) ==
    SelectSeq(users, LAMBDA user : Get(user, "inbox_alias", None) = inbox_alias)

\* the blueprints of the user's blueprint_ids that blueprints_db holds, in the
\* order of blueprint_ids, the first of them being the one found; none when
\* the user has no blueprint_ids
_find_blueprint_for_user(self, user_id) ==
    LET user == SelectSeq(self.users_db, LAMBDA u : u.id = user_id)
        Stored(bp_id) == SelectSeq(self.blueprints_db, LAMBDA bp : bp.id = bp_id)
    IN  IF user = <<>> \/ "blueprint_ids" \notin DOMAIN user[1] THEN <<>>
        ELSE With(SelectSeq(user[1].blueprint_ids, LAMBDA bp_id : Stored(bp_id) # <<>>),
                  LAMBDA held : [k \in DOMAIN held |-> Stored(held[k])[1]])

\* the mock value of a field
MockValue(field) ==
    With(Get(field, "type", "text"),
         LAMBDA field_type :
             IF field_type = "currency" THEN <<"$", "1", ",", "2", "3", "4", ".", "5", "6">>
             ELSE IF field_type = "number" THEN <<"1", "2", "3", "4">>
             ELSE IF field_type = "date" THEN <<"2", "0", "2", "5", "-", "1", "2", "-", "2", "6">>
             ELSE <<"S", "a", "m", "p", "l", "e", " ">> \o Format(field["name"]) \o <<" ", "v", "a", "l", "u", "e">>)

RECURSIVE MockData(_, _)
MockData(schema, n) ==
    IF n = 0 THEN <<>>
    ELSE Put(MockData(schema, n - 1), schema[n]["name"], MockValue(schema[n]))

\* field['name'] raises KeyError at the first field without a name
_simulate_document_processing(schema) ==
    IF \E k \in DOMAIN schema : "name" \notin DOMAIN schema[k] THEN Raise("KeyError")
    ELSE Return([success |-> TRUE, data |-> MockData(schema, Len(schema)),
                 confidence |-> [num |-> 23, den |-> 25]])

\* _process_pdf_attachment: the jobs after it, and its outcome.  The job is
\* stored as queued before the document is processed, and stays so when the
\* processing raises.  The text result_json of the job is left out.
_process_pdf_attachment(jobs, user_id, blueprint, attachment, sender, subject) ==
    LET job_id == <<"j", "o", "b", "_">> \o Decimal(Len(jobs) + 1)
        job == [id |-> job_id, user_id |-> user_id, blueprint_id |-> blueprint.id,
                status |-> "queued",
                r2_key |-> <<"u", "p", "l", "o", "a", "d", "s", "/">> \o user_id \o <<"/">>
                               \o Get(attachment, "filename", <<"u", "n", "n", "a", "m", "e", "d", ".", "p", "d", "f">>),
                sender |-> sender, subject |-> subject]
    IN  With(_simulate_document_processing(blueprint.schema),
             LAMBDA processing_result :
                 IF processing_result.raised # ""
                 THEN [jobs_db |-> Append(jobs, job), outcome |-> processing_result]
                 ELSE LET status == IF processing_result.value.success
                                    THEN "completed" ELSE "failed"
                          confidence == processing_result.value.confidence
                      IN  [jobs_db |-> Append(jobs, Put(Put(job, "status", status),
                                                        "confidence", confidence)),
                           outcome |-> Return([job_id |-> job_id, status |-> status,
                                               confidence |-> confidence,
                                               extracted_data |->
                                                   processing_result.value.data])])

\* the loop of simulate_email_received over the attachments from the n-th on:
\* the jobs after it, and the results or the exception that ended it
RECURSIVE ProcessAttachments(_, _, _, _, _, _, _, _)
ProcessAttachments(jobs, user_id, blueprint, attachments, sender, subject, n, results) ==
    IF n > Len(attachments) THEN [jobs_db |-> jobs, outcome |-> Return(results)]
    ELSE IF Get(attachments[n], "content_type", "None") # "application/pdf"
    THEN ProcessAttachments(jobs, user_id, blueprint, attachments, sender, subject,
                            n + 1, results)
    ELSE With(_process_pdf_attachment(jobs, user_id, blueprint, attachments[n],
                                      sender, subject),
              LAMBDA this :
                  IF this.outcome.raised # "" THEN this
                  ELSE ProcessAttachments(this.jobs_db, user_id, blueprint, attachments,
                                          sender, subject, n + 1,
                                          Append(results, this.outcome.value)))

\* simulate_email_received at the time current_time: the processor after
\* it, and what it returns or raises
simulate_email_received(self, sender, recipient, subject, attachments, current_time) ==
    LET checked == _check_rate_limit(self.rate_limiter, sender, current_time)
        limited == [self EXCEPT !.rate_limiter = checked.rate_limiter]
        user == _find_user_by_inbox_alias(self.users_db, recipient)
        blueprint == _find_blueprint_for_user(self, user[1].id)
        done == ProcessAttachments(self.jobs_db, user[1].id, blueprint[1], attachments,
                                   sender, subject, 1, <<>>)
    IN  IF ~checked.passed
        THEN [self |-> limited,
              outcome |-> Return([status |-> "dropped", reason |-> "rate_limit"])]
        ELSE IF user = <<>>
        THEN [self |-> limited,
              outcome |-> Return([status |-> "error", reason |-> "no_user_found"])]
        ELSE IF blueprint = <<>>
        THEN [self |-> limited,
              outcome |-> Return([status |-> "error", reason |-> "no_blueprint"])]
        ELSE [self |-> [limited EXCEPT !.jobs_db = done.jobs_db],
              outcome |-> IF done.outcome.raised # "" THEN done.outcome
                          ELSE Return([status |-> "processed", user_id |-> user[1].id,
                                       blueprint_id |-> blueprint[1].id,
                                       results |-> done.outcome.value])]

\* the user, the senders, the recipient, the subject and the attachments of
\* simulate_email_processing, and an attachment that is no PDF
UserIds == {<<"u", "s", "e", "r", "_", "1", "2", "3", "4", "5">>}
Senders == {"frequent@sender.com", "vendor@home-depot.com"}
Recipient == <<"u", "s", "e", "r", "_", "1", "2", "3", "4", "5", "@", "s", "a", "r", "a", "h", ".", "a", "i">>
Subject == <<"I", "n", "v", "o", "i", "c", "e", " ", "#", "1", "2", "3", "4", "5">>
Attachments ==
    << [filename |-> <<"l", "o", "g", "o", ".", "p", "n", "g">>, content_type |-> "image/png"],
       [filename |-> <<"i", "n", "v", "o", "i", "c", "e", "_", "1", "2", "3", "4", "5", ".", "p", "d", "f">>, content_type |-> "application/pdf"] >>

\* the seconds that pass between one email and the next
Delays == {0, 1, OneHour - 1}

\* the last second at which an email arrives: one second after the hour that
\* began with the first email
MaxTime == 3601

XeroImport ==
    [name |-> <<"X", "e", "r", "o", " ", "I", "m", "p", "o", "r", "t">>,
     schema |-> <<[name |-> <<"V", "e", "n", "d", "o", "r">>, type |-> "text",
                   instruction |-> <<"E", "x", "t", "r", "a", "c", "t", " ", "v", "e", "n", "d", "o", "r", " ", "n", "a", "m", "e">>],
                  [name |-> <<"T", "o", "t", "a", "l">>, type |-> "currency",
                   instruction |-> <<"E", "x", "t", "r", "a", "c", "t", " ", "t", "o", "t", "a", "l", " ", "a", "m", "o", "u", "n", "t">>],
                  [name |-> <<"I", "n", "v", "o", "i", "c", "e", " ", "D", "a", "t", "e">>, type |-> "date",
                   instruction |-> <<"E", "x", "t", "r", "a", "c", "t", " ", "i", "n", "v", "o", "i", "c", "e", " ", "d", "a", "t", "e">>]>>]

\* the blueprints given to add_blueprint
BlueprintData == {XeroImport}

\* the most blueprints that one behaviour stores
MaxBlueprints == 1

\* a new processor
InitEmail ==
    /\ call = NoCall
    /\ ret = Pending
    /\ IdleSim
    /\ IdleApi
    /\ IdleOther
    /\ users_db = <<>>
    /\ blueprints_db = <<>>
    /\ jobs_db = <<>>
    /\ rate_limiter = <<>>
    /\ utcnow = 0
    /\ received = <<>>

\* add_user and add_blueprint are called on the processor at any time, before
\* the first email as in simulate_email_processing or between two emails
AddUser ==
    \E user_id \in UserIds :
        /\ \E out \in {add_user(EmailProcessor(users_db, blueprints_db, jobs_db, rate_limiter),
                                 user_id, <<"t", "e", "s", "t", "@", "e", "x", "a", "m", "p", "l", "e", ".", "c", "o", "m">>, Recipient)} :
               /\ call' = [op |-> "add_user", user_id |-> user_id,
                           email |-> <<"t", "e", "s", "t", "@", "e", "x", "a", "m", "p", "l", "e", ".", "c", "o", "m">>, inbox_alias |-> Recipient]
               /\ ret' = Return(None)
               /\ users_db' = out.users_db
        /\ UNCHANGED <<blueprints_db, jobs_db, rate_limiter, utcnow, received,
                       sim_vars, api_vars, other_vars>>

AddBlueprint ==
    \E user_id \in UserIds, blueprint_data \in BlueprintData :
        /\ Len(blueprints_db) < MaxBlueprints
        /\ \E out \in {add_blueprint(EmailProcessor(users_db, blueprints_db, jobs_db,
                                                     rate_limiter),
                                      user_id, blueprint_data)} :
               /\ call' = [op |-> "add_blueprint", user_id |-> user_id,
                           blueprint_data |-> blueprint_data]
               /\ ret' = Return(out.blueprints_db[Len(out.blueprints_db)])
               /\ users_db' = out.users_db
               /\ blueprints_db' = out.blueprints_db
        /\ UNCHANGED <<jobs_db, rate_limiter, utcnow, received,
                       sim_vars, api_vars, other_vars>>

\* an email arrives delay seconds after the one before it
SimulateEmailReceived ==
    \E sender \in Senders, delay \in Delays :
        /\ Len(received) < MaxEmails
        /\ utcnow + delay <= MaxTime
        /\ \E out \in {simulate_email_received(
                           EmailProcessor(users_db, blueprints_db, jobs_db, rate_limiter),
                           sender, Recipient, Subject, Attachments, utcnow + delay)} :
               /\ call' = [op |-> "simulate_email_received", sender |-> sender,
                           recipient |-> Recipient, subject |-> Subject,
                           attachments |-> Attachments]
               /\ ret' = out.outcome
               /\ users_db' = out.self.users_db
               /\ blueprints_db' = out.self.blueprints_db
               /\ jobs_db' = out.self.jobs_db
               /\ rate_limiter' = out.self.rate_limiter
               /\ utcnow' = utcnow + delay
               /\ received' = Append(received,
                                     [sender |-> sender, time |-> utcnow + delay,
                                      status |-> IF out.outcome.raised = ""
                                                 THEN out.outcome.value.status
                                                 ELSE out.outcome.raised])
        /\ UNCHANGED <<sim_vars, api_vars, other_vars>>

NextEmail ==
    \/ AddUser
    \/ AddBlueprint
    \/ SimulateEmailReceived

SpecEmail == InitEmail /\ [][NextEmail]_vars

----------------------------------------------------------------------------
(* Calls that follow one another on one instance of each of the two
   SarahAIProcessor classes: the simulation processor of
   src/sarah_ai_engine_simulation.py and the direct extractor of
   src/sarah_ai_direct_extraction.py.  A call runs statement by statement
   with its locals in frame; what an instance keeps between two calls is
   processing_history for the first and nothing for the second, and the
   direct extractor reads the clock. *)

\* the most calls made on the two processors together
MaxCalls == 3

\* the texts that the two OCR calls of the direct extractor have returned
DirectDocuments ==
    { [text_content |-> Invoice, ocr_content |-> <<>>],
      [text_content |-> <<"T", "h", "a", "n", "k", " ", "y", "o", "u">>, ocr_content |-> Invoice] }

\* the schemas given to the direct extractor: those of the simulation calls
DirectSchemas == {schema_json.schema : schema_json \in {j \in SimSchemaJsons : j.valid}}

\* the locals with the dict of the call before on the same processor, where
\* the code makes a new dict in every call
Locals_keeping_extracted(processor, content, schema) ==
    LET before == {i \in DOMAIN trace :
                       /\ trace[i].processor = processor
                       /\ trace[i].outcome.raised = ""
                       /\ "success" \in DOMAIN trace[i].outcome.value =>
                              trace[i].outcome.value.success}
        last == trace[Max(before)].outcome.value
    IN  [at |-> "for field in schema", processor |-> processor, content |-> content,
         schema |-> schema, rest |-> schema,
         extracted |-> IF before = {} THEN <<>>
                       ELSE IF processor = "simulation" THEN last.data
                       ELSE last.extracted_data]

\* the locals of _extract_with_schema and of
\* _extract_values_from_structured_output before the loop: extracted = {},
\* the text that the strategies read, and the fields that the loop has yet
\* to take
Locals(processor, content, schema) ==
    [at |-> "for field in schema", processor |-> processor, content |-> content,
     schema |-> schema, rest |-> schema, extracted |-> <<>>]

\* extracted[field_name] = value, and the loop goes to the next field
Extracted(locals, value) ==
    [locals EXCEPT !.extracted = Put(@, Head(locals.rest)["name"], value),
                   !.rest = Tail(@)]

\* the call under way leaves the processor with outcome
Leaves(processor, outcome) ==
    /\ ret' = outcome
    /\ trace' = Append(trace, [processor |-> processor, call |-> call, outcome |-> outcome])
    /\ frame' = NoFrame
    /\ call' = call

InitRepeated ==
    /\ call = NoCall
    /\ ret = Pending
    /\ IdleSim
    /\ IdleApi
    /\ IdleEmail
    /\ IdleOther

\* the simulation processor is called: json.loads(schema_json), after which
\* it returns the failure for a string that is no JSON, or enters
\* _extract_with_schema
SimLoads ==
    \E document_text \in SimDocuments, schema_json \in SimSchemaJsons :
        /\ frame = NoFrame
        /\ Len(trace) < MaxCalls
        /\ call' = [op |-> "sim_process_document_with_schema",
                    document_text |-> document_text, schema_json |-> schema_json]
        /\ IF schema_json.valid
           THEN /\ frame' = Locals("simulation", document_text, schema_json.schema)
                /\ ret' = Pending
                /\ trace' = trace
           ELSE /\ frame' = NoFrame
                /\ ret' = Return([success |-> FALSE])
                /\ trace' = Append(trace, [processor |-> "simulation", call |-> call',
                                           outcome |-> ret'])
        /\ UNCHANGED <<processing_history, api_vars, email_vars, other_vars>>

\* one turn of the loop of _extract_with_schema; an exception leaves the call
SimExtractsField ==
    /\ frame.at = "for field in schema"
    /\ frame.processor = "simulation"
    /\ frame.rest # <<>>
    /\ \E r \in {SimField(frame.content, Head(frame.rest))} :
           IF r.raised # ""
           THEN Leaves("simulation", r)
           ELSE /\ frame' = Extracted(frame, r.value)
                /\ UNCHANGED <<call, ret, trace>>
    /\ UNCHANGED <<processing_history, api_vars, email_vars, other_vars>>

\* _extract_with_schema returns extracted; the confidence is computed, and
\* the result is appended to processing_history and returned
SimReturns ==
    /\ frame.at = "for field in schema"
    /\ frame.processor = "simulation"
    /\ frame.rest = <<>>
    /\ LET extracted_data == frame.extracted
           total_fields == Len(frame.schema)
           extracted_fields ==
               Cardinality({k \in DOMAIN extracted_data : extracted_data[k] # <<>>})
           result == [success |-> TRUE,
                      data |-> extracted_data,
                      confidence |-> IF total_fields > 0
                                     THEN Fraction(extracted_fields, total_fields)
                                     ELSE Zero,
                      schema_used |-> frame.schema]
       IN  /\ processing_history' = Append(processing_history, result)
           /\ Leaves("simulation", Return(result))
    /\ UNCHANGED <<api_vars, email_vars, other_vars>>

\* the direct extractor is called and its two OCR calls have returned, delay
\* seconds after the call before: it enters
\* _extract_values_from_structured_output
DirectExtractValues ==
    \E document \in DirectDocuments, schema \in DirectSchemas, delay \in {0, 1} :
        /\ frame = NoFrame
        /\ Len(trace) < MaxCalls
        /\ call' = [op |-> "process_document_with_schema",
                    text_content |-> document.text_content,
                    ocr_content |-> document.ocr_content, schema |-> schema]
        /\ frame' = Locals("direct",
                           document.text_content \o <<"\n", "\n">> \o document.ocr_content,
                           schema)
        /\ ret' = Pending
        /\ utcnow' = utcnow + delay
        /\ UNCHANGED <<processing_history, trace, api_vars, other_vars,
                       users_db, blueprints_db, jobs_db, rate_limiter, received>>

\* one turn of the loop of _extract_values_from_structured_output; an
\* exception leaves the call
DirectExtractsField ==
    /\ frame.at = "for field in schema"
    /\ frame.processor = "direct"
    /\ frame.rest # <<>>
    /\ \E r \in {ExtractField(frame.content, Head(frame.rest))} :
           IF r.raised # ""
           THEN Leaves("direct", r)
           ELSE /\ frame' = Extracted(frame, r.value)
                /\ UNCHANGED <<call, ret, trace>>
    /\ UNCHANGED <<processing_history, api_vars, email_vars, other_vars>>

\* _extract_values_from_structured_output returns extracted: steps 4 and 5 of
\* process_document_with_schema.  processing_timestamp is kept as the time
\* of the clock, which isoformat() writes out digit by digit.
DirectReturns ==
    /\ frame.at = "for field in schema"
    /\ frame.processor = "direct"
    /\ frame.rest = <<>>
    /\ LET extracted_data == frame.extracted
           confidence == _calculate_confidence(extracted_data, frame.schema)
       IN  Leaves("direct",
                  IF ~ValidSchemaUsed(frame.schema) THEN Raise("ValidationError")
                  ELSE Return([extracted_data |-> extracted_data,
                               confidence |-> confidence,
                               raw_text |-> call.text_content,
                               raw_ocr |-> call.ocr_content,
                               processing_timestamp |-> utcnow,
                               schema_used |-> frame.schema]))
    /\ UNCHANGED <<processing_history, api_vars, email_vars, other_vars>>

NextRepeated ==
    \/ SimLoads
    \/ SimExtractsField
    \/ SimReturns
    \/ DirectExtractValues
    \/ DirectExtractsField
    \/ DirectReturns

SpecRepeated == InitRepeated /\ [][NextRepeated]_vars

----------------------------------------------------------------------------
(* src/blueprint_builder.py: BlueprintBuilder, which keeps the dicts
   blueprints and users_to_blueprints *)

\* the most ids that the lists of the users hold, the seconds that the clock
\* goes through, and the second at which the builder is made
MaxListed == 3
MaxSeconds == 1
StartSecond == 1700000000

\* FieldDefinition(name=field_data['name'], ...) for each field_data
FieldDefinitions(fields) ==
    IF \E k \in 1..Len(fields) : "name" \notin DOMAIN fields[k]
    THEN Raise("KeyError")
    ELSE Return([k \in 1..Len(fields) |->
                    [name |-> fields[k]["name"],
                     field_type |-> Get(fields[k], "type", "text"),
                     instruction |-> Get(fields[k], "instruction", <<>>),
                     required |-> Get(fields[k], "required", TRUE)]])

\* int(datetime.utcnow().timestamp()) at the second utc of the clock: the
\* datetime that utcnow() gives has no time zone, and timestamp() reads it as
\* local time
UtcnowTimestamp(utc, offset) == utc - offset

\* f"bp_{len(self.blueprints) + 1}_{int(datetime.utcnow().timestamp())}"
GenerateBlueprintId(stored, timestamp) ==
    <<"b", "p", "_">> \o Decimal(Cardinality(DOMAIN stored) + 1) \o <<"_">> \o Decimal(timestamp)

\* the attributes of a BlueprintBuilder
BlueprintBuilder(stored, linked) == [blueprints |-> stored, users_to_blueprints |-> linked]

\* what a method leaves: the builder and the outcome of the call
Left(self, outcome) == [self |-> self, outcome |-> outcome]

\* create_blueprint, which reads the clock twice: for the id, where timestamp
\* is what int(datetime.utcnow().timestamp()) gives, and then in
\* Blueprint.__post_init__ for created_at, which is the UTC second of that
\* read where the code keeps the microseconds too
create_blueprint(self, user_id, name, fields, target_sheet_id, timestamp, created_at) ==
    LET validated_fields == FieldDefinitions(fields)
        blueprint_id == GenerateBlueprintId(self.blueprints, timestamp)
        blueprint == [id |-> blueprint_id, user_id |-> user_id, name |-> name,
                      fields |-> validated_fields.value,
                      target_sheet_id |-> target_sheet_id,
                      created_at |-> created_at]
        linked == IF user_id \in DOMAIN self.users_to_blueprints
                  THEN self.users_to_blueprints
                  ELSE Put(self.users_to_blueprints, user_id, <<>>)
    IN  IF validated_fields.raised # "" THEN Left(self, validated_fields)
        ELSE Left(BlueprintBuilder(
                      Put(self.blueprints, blueprint_id, blueprint),
                      Put(linked, user_id, Append(linked[user_id], blueprint_id))),
                  Return(blueprint))

\* update_blueprint(blueprint_id, **updates)
update_blueprint(self, blueprint_id, updates) ==
    IF blueprint_id \notin DOMAIN self.blueprints THEN Left(self, Return(None))
    ELSE LET blueprint == self.blueprints[blueprint_id]
             validated_fields == IF "fields" \in DOMAIN updates
                                 THEN FieldDefinitions(updates["fields"])
                                 ELSE Return(blueprint.fields)
             updated == [blueprint EXCEPT
                            !.fields = validated_fields.value,
                            !.name = Get(updates, "name", @),
                            !.target_sheet_id = Get(updates, "target_sheet_id", @)]
         IN  IF validated_fields.raised # "" THEN Left(self, validated_fields)
             ELSE Left([self EXCEPT !.blueprints = Put(@, blueprint_id, updated)],
                       Return(updated))

\* list.remove(x): the list without the first x
Remove(list, x) ==
    LET at == Min({i \in 1..Len(list) : list[i] = x})
    IN  SubSeq(list, 1, at - 1) \o SubSeq(list, at + 1, Len(list))

delete_blueprint(self, blueprint_id) ==
    IF blueprint_id \notin DOMAIN self.blueprints THEN Left(self, Return(FALSE))
    ELSE LET blueprint == self.blueprints[blueprint_id]
             linked == self.users_to_blueprints
             user_bps == linked[blueprint.user_id]
         IN  Left(BlueprintBuilder(
                      [id \in DOMAIN self.blueprints \ {blueprint_id} |->
                          self.blueprints[id]],
                      IF /\ blueprint.user_id \in DOMAIN linked
                         /\ \E i \in 1..Len(user_bps) : user_bps[i] = blueprint_id
                      THEN Put(linked, blueprint.user_id, Remove(user_bps, blueprint_id))
                      ELSE linked),
                  Return(TRUE))

\* the users, the names, the field lists and the sheets of the calls: a list
\* of one field, and one whose field has no name
BuilderUsers == {"user_12345", "user_67890"}
BuilderNames == {"Xero Import Template"}
BuilderFields ==
    { << [name |-> <<"V", "e", "n", "d", "o", "r">>, type |-> "text",
          instruction |-> <<"E", "x", "t", "r", "a", "c", "t", " ", "t", "h", "e", " ", "v", "e", "n", "d", "o", "r", " ", "o", "r", " ", "s", "u", "p", "p", "l", "i", "e", "r", " ", "n", "a", "m", "e">>] >>,
      << [type |-> "text", instruction |-> <<"E", "x", "t", "r", "a", "c", "t", " ", "t", "h", "e", " ", "v", "e", "n", "d", "o", "r", " ", "o", "r", " ", "s", "u", "p", "p", "l", "i", "e", "r", " ", "n", "a", "m", "e">>] >> }
BuilderSheets == {<<"s", "h", "e", "e", "t", "_", "6", "7", "8", "9", "0">>}

\* the updates of the calls of update_blueprint
BuilderUpdates ==
    { [name |-> "Renamed", target_sheet_id |-> None],
      [fields |-> << [type |-> "text", instruction |-> <<>>] >>] }

\* the time zones of the builder: UTC, and India, five and a half hours ahead
UtcOffsets == {0, 19800}

\* the ids given to update_blueprint and delete_blueprint: those that
\* create_blueprint can give, stored or not
BuilderIds ==
    {<<"b", "p", "_">> \o Decimal(n) \o <<"_">>
         \o Decimal(UtcnowTimestamp(StartSecond + t, utc_offset)) :
        n \in 1..MaxListed, t \in 0..MaxSeconds}

\* the builder after BlueprintBuilder()
InitBuilder ==
    /\ call = NoCall
    /\ ret = Pending
    /\ blueprints = <<>>
    /\ users_to_blueprints = <<>>
    /\ clock = StartSecond
    /\ utc_offset \in UtcOffsets
    /\ files = {}
    /\ tasks = <<>>
    /\ processing_runs = <<>>
    /\ IdleSim
    /\ IdleApi
    /\ IdleEmail

\* the number of ids in the lists of the users
TotalListed(linked) ==
    Cardinality({<<user_id, i>> \in (DOMAIN linked) \X (1..(MaxListed + 1)) :
                    i <= Len(linked[user_id])})

\* a method has run on the builder
Called(request, left) ==
    /\ call' = request
    /\ ret' = left.outcome
    /\ blueprints' = left.self.blueprints
    /\ users_to_blueprints' = left.self.users_to_blueprints
    /\ TotalListed(left.self.users_to_blueprints) <= MaxListed
    /\ UNCHANGED <<utc_offset, task_vars, processing_runs, sim_vars, api_vars, email_vars>>

\* create_blueprint: between its two reads of the clock the second may change,
\* and a call that raises has read no clock
CreateBlueprint ==
    \E user_id \in BuilderUsers, name \in BuilderNames, fields \in BuilderFields,
       target_sheet_id \in BuilderSheets, second_read \in {clock, clock + 1} :
        \E left \in {create_blueprint(BlueprintBuilder(blueprints, users_to_blueprints),
                                      user_id, name, fields, target_sheet_id,
                                      UtcnowTimestamp(clock, utc_offset), second_read)} :
            /\ second_read <= StartSecond + MaxSeconds
            /\ left.outcome.raised # "" => second_read = clock
            /\ clock' = second_read
            /\ Called([op |-> "create_blueprint", user_id |-> user_id, name |-> name,
                       fields |-> fields, target_sheet_id |-> target_sheet_id], left)

UpdateBlueprint ==
    \E blueprint_id \in BuilderIds, updates \in BuilderUpdates :
        /\ Called([op |-> "update_blueprint", blueprint_id |-> blueprint_id,
                   updates |-> updates],
                  update_blueprint(BlueprintBuilder(blueprints, users_to_blueprints),
                                   blueprint_id, updates))
        /\ clock' = clock

DeleteBlueprint ==
    \E blueprint_id \in BuilderIds :
        /\ Called([op |-> "delete_blueprint", blueprint_id |-> blueprint_id],
                  delete_blueprint(BlueprintBuilder(blueprints, users_to_blueprints),
                                   blueprint_id))
        /\ clock' = clock

\* a second passes
Tick ==
    /\ clock < StartSecond + MaxSeconds
    /\ clock' = clock + 1
    /\ UNCHANGED <<call, ret, blueprints, users_to_blueprints, utc_offset, task_vars,
                   processing_runs,
                   sim_vars, api_vars, email_vars>>

NextBuilder ==
    \/ CreateBlueprint
    \/ UpdateBlueprint
    \/ DeleteBlueprint
    \/ Tick

SpecBuilder == InitBuilder /\ [][NextBuilder]_vars

----------------------------------------------------------------------------
(* The API server with requests that overlap on one document.  The handlers
   are coroutines of one event loop: each runs without interruption from one
   await to the next, and at 'await file.read()' and 'await asyncio.sleep(0.5)'
   any other handler may run.  pending holds the handlers that wait. *)

\* the handlers that wait at one time, and the calls of
\* process_document_synchronously for a document in one behaviour
MaxInFlight == 2
MaxRuns == 2

\* the keys of the requests: the key of the project of the document, and the
\* key of the other project
ConcurrentHeaders == {<<"B", "e", "a", "r", "e", "r", " ", "s", "k", "_">> \o Decimal(n) : n \in 1..MaxProjects}

\* the number of calls of process_document_synchronously for a document
Runs(runs, document_id) == Get(runs, document_id, 0)

\* the projects are set up and the first of them has created a document
InitApiConcurrent ==
    /\ call = NoCall
    /\ ret = Pending
    /\ \E server \in Servers, sha256 \in Hashes :
           db = create_document(SetUp(server, MaxProjects),
                                [project_id |-> <<"p", "1">>, sha256 |-> sha256],
                                <<"B", "e", "a", "r", "e", "r", " ", "s", "k", "_", "1">>).db
    /\ pending = <<>>
    /\ processing_runs = <<>>
    /\ files = {}
    /\ tasks = <<>>
    /\ IdleBuilder
    /\ IdleSim
    /\ IdleEmail

\* upload_document from the request to 'await file.read()'
ConcurrentUpload ==
    \E authorization \in ConcurrentHeaders, document_id \in {<<"d", "1">>} :
        LET request == [op |-> "upload_document", document_id |-> document_id,
                        authorization |-> authorization]
            responses == upload_document(db, document_id, authorization)
        IN  /\ Len(pending) < MaxInFlight
            /\ call' = request
            /\ IF responses # <<>>
               THEN ret' = Return(responses[1]) /\ pending' = pending
               ELSE ret' = Pending /\ pending' = Append(pending, request)
            /\ UNCHANGED <<db, processing_runs, task_vars, builder_vars, sim_vars, email_vars>>

\* upload_document from the return of 'await file.read()' to the response
ConcurrentUploadRead ==
    \E i \in DOMAIN pending, file \in Files :
        LET outcome == upload_document_read(db, pending[i].document_id, file)
        IN  /\ pending[i].op = "upload_document"
            /\ call' = pending[i]
            /\ ret' = Return(outcome.response)
            /\ db' = outcome.db
            /\ pending' = Resumed(pending, i)
            /\ UNCHANGED <<processing_runs, task_vars, builder_vars, sim_vars, email_vars>>

\* complete_document from the request to the 'await asyncio.sleep(0.5)' of
\* process_document_synchronously
ConcurrentComplete ==
    \E authorization \in ConcurrentHeaders, document_id \in {<<"d", "1">>} :
        LET request == [op |-> "complete_document", document_id |-> document_id,
                        authorization |-> authorization]
            outcome == complete_document(db, document_id, authorization)
        IN  /\ Len(pending) < MaxInFlight
            /\ call' = request
            /\ db' = outcome.db
            /\ IF outcome.response # <<>>
               THEN /\ ret' = Return(outcome.response[1])
                    /\ UNCHANGED <<pending, processing_runs>>
               ELSE /\ Runs(processing_runs, document_id) < MaxRuns
                    /\ ret' = Pending
                    /\ pending' = Append(pending, request)
                    /\ processing_runs' =
                           Put(processing_runs, document_id,
                               Runs(processing_runs, document_id) + 1)
            /\ UNCHANGED <<task_vars, builder_vars, sim_vars, email_vars>>

\* process_document_synchronously from the return of the sleep on, and the
\* response of complete_document
ConcurrentProcess ==
    \E i \in DOMAIN pending, failure \in BOOLEAN :
        LET outcome == process_document_synchronously(
                           db, pending[i].document_id,
                           get_project_from_api_key(db.api_keys, pending[i].authorization),
                           failure)
        IN  /\ pending[i].op = "complete_document"
            /\ call' = pending[i]
            /\ ret' = Return(outcome.response)
            /\ db' = outcome.db
            /\ pending' = Resumed(pending, i)
            /\ UNCHANGED <<processing_runs, task_vars, builder_vars, sim_vars, email_vars>>

NextApiConcurrent ==
    \/ ConcurrentUpload
    \/ ConcurrentUploadRead
    \/ ConcurrentComplete
    \/ ConcurrentProcess

SpecApiConcurrent == InitApiConcurrent /\ [][NextApiConcurrent]_vars

----------------------------------------------------------------------------
(* src/docuflow-engine/main.py: process_task, which downloads a document
   into /tmp, converts it and posts a callback.  process_endpoint adds it as
   a background task: it runs after the response in a thread of its own,
   and other runs go on while it waits in a call to a service and between
   any two of its calls to the file system, pikepdf.open and pdf.save
   among them. *)

\* s.rfind(c), 1-based; 0 when c does not occur
rfind(s, c) == Max({0} \cup {i \in 1..Len(s) : s[i] = c})

\* os.path.splitext(p)[1]: from the last dot of the last component on, when
\* a character other than a dot stands before it in the component
splitext(p) ==
    LET sepIndex == rfind(p, "/")
        dotIndex == rfind(p, ".")
    IN  IF dotIndex > sepIndex /\ \E k \in (sepIndex + 1)..(dotIndex - 1) : p[k] # "."
        THEN Slice(p, dotIndex, Len(p) + 1)
        ELSE <<>>

\* compress_and_standardize up to pikepdf.open(input_path), on the files of
\* disk: it returns input_path for a file that is no PDF and when
\* pikepdf.open raises, which the except clause catches, as it does for an
\* input that another run has removed; otherwise it goes on to pdf.save.
\* opened tells whether pikepdf.open takes the file that is there.
compress_and_standardize(input_path, original_filename, opened, disk) ==
    IF \/ lower(splitext(original_filename)) # <<".", "p", "d", "f">>
       \/ ~opened
       \/ input_path \notin disk
    THEN [at |-> "return", path |-> input_path]
    ELSE [at |-> "pdf.save", path |-> None]

\* pdf.save(output_path) on the files of disk, and the return of
\* compress_and_standardize: the path it returns, the files after it and
\* those it has written.  pikepdf tells what pdf.save does: "saved";
\* "raises", which leaves no output file; or "raises, output left", a save
\* that fails after it has begun to write the output.  The exception is
\* caught and input_path returned.  The PDF is open: that another run has
\* removed the input since does not stop the save.
pdf_save(input_path, pikepdf, disk) ==
    LET output_path == input_path \o <<"_", "o", "p", "t", "i", "m", "i", "z", "e", "d", ".", "p", "d", "f">>
    IN  IF pikepdf = "raises"
        THEN [path |-> input_path, disk |-> disk, written |-> {}]
        ELSE IF pikepdf = "saved"
        THEN [path |-> output_path, disk |-> disk \cup {output_path},
              written |-> {output_path}]
        ELSE [path |-> input_path, disk |-> disk \cup {output_path},
              written |-> {output_path}]

\* requests.post(callback_url, json={"status": status, ...}) as the run
\* issues it; answer is "" while the run waits for the answer, then the
\* status code, or "raises" for a timeout or a connection error
Callback(doc_id, status, answer) == [docId |-> doc_id, status |-> status, answer |-> answer]

\* the answer to the callback that the run has issued last
Answered(callbacks, answer) == [callbacks EXCEPT ![Len(callbacks)].answer = answer]

\* the most runs of process_task in flight
MaxTasks == 2

\* a run of process_task as process_endpoint adds it: the statement at which
\* it stands, its locals temp_input and final_pdf_path, the calls that have
\* returned to it, the callbacks it has issued, in order, the files it has
\* written, and those of them that another run has written after it
Task(req) ==
    [req |-> req, at |-> "requests.get", temp_input |-> None, final_pdf_path |-> None,
     returned |-> {}, callbacks |-> <<>>, made |-> {}, replaced |-> {}]

\* the runs after run i has written the files of paths: a file of another
\* run at such a path is replaced
Written(runs, i, paths) ==
    [j \in DOMAIN runs |->
        IF j = i
        THEN [runs[j] EXCEPT !.made = @ \cup paths, !.replaced = @ \ paths]
        ELSE [runs[j] EXCEPT !.replaced = @ \cup (paths \cap runs[j].made)]]

\* the except clause: the run issues the FAILED callback and waits for its
\* answer
FailureCallback(task) ==
    [task EXCEPT !.at = "requests.post FAILED",
                 !.callbacks = Append(@, Callback(task.req.doc_id, "FAILED", ""))]

\* What a run leaves: the callbacks it has issued, the calls that have
\* returned to it, the files it has written and those of them that another
\* run has written after it.
TaskRun(task) ==
    [callbacks |-> task.callbacks, returned |-> task.returned,
     made |-> task.made, replaced |-> task.replaced]

\* lines 75 to 82 of process_task, once requests.get has answered: download
\* is its status code, or "raises"; write tells whether open or f.write
\* raises.  open(temp_input, "wb") makes the file, or empties the one that
\* is there.
process_task(task, download, write) ==
    LET extension == splitext(task.req.file_proxy)
        temp_input == <<"/", "t", "m", "p", "/">> \o task.req.doc_id \o <<"_", "r", "a", "w">>
                          \o (IF extension # <<>> THEN extension ELSE <<".", "p", "d", "f">>)
        named == [task EXCEPT !.temp_input = temp_input, !.returned = {"requests.get"}]
    IN  IF download # "200"
        THEN [task |-> FailureCallback(task), written |-> {}]
        ELSE IF write = "open raises"
        THEN [task |-> FailureCallback(named), written |-> {}]
        ELSE IF write = "write raises"
        THEN [task |-> FailureCallback(named), written |-> {temp_input}]
        ELSE [task |-> [named EXCEPT !.at = "compress_and_standardize",
                                     !.returned = @ \cup {"open"}],
              written |-> {temp_input}]

\* the requests: a document with proxies that have the extension .pdf, none
\* and another one, and a second document
TaskRequests ==
    {[doc_id |-> <<"d", "o", "c", "_", "1">>, file_proxy |-> file_proxy] :
        file_proxy \in {<<"h", "t", "t", "p", "s", ":", "/", "/", "a", "p", "p", ".", "i", "o", "/", "p", "r", "o", "x", "y", "/", "a", ".", "p", "d", "f">>, <<"h", "t", "t", "p", "s", ":", "/", "/", "a", "p", "p", ".", "i", "o", "/", "p", "r", "o", "x", "y", "/", "a", ".", "P", "N", "G">>,
                        <<"h", "t", "t", "p", "s", ":", "/", "/", "a", "p", "p", ".", "i", "o", "/", "p", "r", "o", "x", "y", "/", "a">>}}
    \cup {[doc_id |-> <<"d", "o", "c", "_", "2">>, file_proxy |-> <<"h", "t", "t", "p", "s", ":", "/", "/", "a", "p", "p", ".", "i", "o", "/", "p", "r", "o", "x", "y", "/", "a", ".", "P", "N", "G">>]}

\* the engine has started; /tmp holds nothing of it
InitTask ==
    /\ call = NoCall
    /\ ret = Pending
    /\ files = {}
    /\ tasks = <<>>
    /\ processing_runs = <<>>
    /\ IdleBuilder
    /\ IdleSim
    /\ IdleApi
    /\ IdleEmail

\* POST /process: the run is added and the request is answered
ProcessEndpoint ==
    \E req \in TaskRequests :
        /\ Len(tasks) < MaxTasks
        /\ tasks' = Append(tasks, Task(req))
        /\ call' = [op |-> "process_endpoint", req |-> req]
        /\ ret' = Return([status |-> <<"q", "u", "e", "u", "e", "d">>, doc_id |-> req.doc_id])
        /\ UNCHANGED <<files, processing_runs, builder_vars, sim_vars, api_vars, email_vars>>

\* run i goes on as task, having written the files of paths
GoesOn(i, task, paths) ==
    /\ tasks' = Written([tasks EXCEPT ![i] = task], i, paths)
    /\ call' = [op |-> "process_task", req |-> task.req]
    /\ ret' = Pending
    /\ UNCHANGED <<processing_runs, builder_vars, sim_vars, api_vars, email_vars>>

\* run i ends: process_task returns, or the exception that its finally
\* clause has raised leaves it
Ends(i, raised) ==
    /\ tasks' = SubSeq(tasks, 1, i - 1) \o SubSeq(tasks, i + 1, Len(tasks))
    /\ call' = [op |-> "process_task", req |-> tasks[i].req]
    /\ ret' = [raised |-> raised, value |-> TaskRun(tasks[i])]
    /\ UNCHANGED <<processing_runs, builder_vars, sim_vars, api_vars, email_vars>>

\* requests.get answers a run: it writes the file and goes on to compress
\* it, or goes to the except clause
RequestsGet ==
    \E i \in DOMAIN tasks :
        /\ tasks[i].at = "requests.get"
        /\ \E download \in {"200", "404", "raises"},
              write \in {"ok", "open raises", "write raises"} :
               \E left \in {process_task(tasks[i], download, write)} :
                   /\ download # "200" => write = "ok"
                   /\ files' = files \cup left.written
                   /\ GoesOn(i, left.task, left.written)

\* final_pdf_path = compress_and_standardize(temp_input, temp_input) up to
\* pikepdf.open: the run goes on to pdf.save, or the function returns
\* temp_input and the run calls converter.convert
CompressAndStandardize ==
    \E i \in DOMAIN tasks, opened \in BOOLEAN :
        /\ tasks[i].at = "compress_and_standardize"
        /\ files' = files
        /\ \E entered \in {compress_and_standardize(tasks[i].temp_input,
                                                    tasks[i].temp_input, opened, files)} :
               GoesOn(i,
                      IF entered.at = "pdf.save"
                      THEN [tasks[i] EXCEPT !.at = "pdf.save"]
                      ELSE [tasks[i] EXCEPT !.at = "converter.convert",
                                            !.final_pdf_path = entered.path],
                      {})

\* pdf.save(output_path), the return of compress_and_standardize, and the
\* call of converter.convert
PdfSave ==
    \E i \in DOMAIN tasks, pikepdf \in {"saved", "raises", "raises, output left"} :
        /\ tasks[i].at = "pdf.save"
        /\ \E compressed \in {pdf_save(tasks[i].temp_input, pikepdf, files)} :
               /\ files' = compressed.disk
               /\ GoesOn(i, [tasks[i] EXCEPT !.at = "converter.convert",
                                             !.final_pdf_path = compressed.path],
                         compressed.written)

\* converter.convert returns to a run, which calls the agent, or raises
ConverterConvert ==
    \E i \in DOMAIN tasks, converted \in BOOLEAN :
        /\ tasks[i].at = "converter.convert"
        /\ files' = files
        /\ GoesOn(i,
                  IF converted
                  THEN [tasks[i] EXCEPT !.at = "agent.run_sync",
                                        !.returned = @ \cup {"converter.convert"}]
                  ELSE FailureCallback(tasks[i]),
                  {})

\* agent.run_sync returns to a run, which issues the COMPLETED callback, or
\* raises
AgentRunSync ==
    \E i \in DOMAIN tasks, extracted \in BOOLEAN :
        /\ tasks[i].at = "agent.run_sync"
        /\ files' = files
        /\ GoesOn(i,
                  IF extracted
                  THEN [tasks[i] EXCEPT
                           !.at = "requests.post COMPLETED",
                           !.returned = @ \cup {"agent.run_sync"},
                           !.callbacks = Append(@, Callback(tasks[i].req.doc_id, "COMPLETED", ""))]
                  ELSE FailureCallback(tasks[i]),
                  {})

\* requests.post of the COMPLETED callback returns, whatever the status
\* code, and the run goes to the finally clause; or it raises, and the run
\* goes to the except clause
CompletedCallback ==
    \E i \in DOMAIN tasks, answer \in {"200", "500", "raises"} :
        /\ tasks[i].at = "requests.post COMPLETED"
        /\ files' = files
        /\ LET task == [tasks[i] EXCEPT !.callbacks = Answered(@, answer)]
           IN  GoesOn(i, IF answer = "raises"
                                THEN FailureCallback(task)
                                ELSE [task EXCEPT !.at = "exists temp_input"],
                             {})

\* requests.post of the FAILED callback returns or raises, and the run goes
\* to the finally clause
FailedCallback ==
    \E i \in DOMAIN tasks, answer \in {"200", "raises"} :
        /\ tasks[i].at = "requests.post FAILED"
        /\ files' = files
        /\ GoesOn(i, [tasks[i] EXCEPT !.callbacks = Answered(@, answer),
                                             !.at = "exists temp_input"], {})

\* if temp_input and os.path.exists(temp_input)
ExistsTempInput ==
    \E i \in DOMAIN tasks :
        /\ tasks[i].at = "exists temp_input"
        /\ files' = files
        /\ GoesOn(i,
                  [tasks[i] EXCEPT !.at = IF tasks[i].temp_input # None
                                             /\ tasks[i].temp_input \in files
                                          THEN "remove temp_input"
                                          ELSE "exists final_pdf_path"],
                  {})

\* os.remove(temp_input), which raises FileNotFoundError when another run
\* has removed the file since the test
RemoveTempInput ==
    \E i \in DOMAIN tasks :
        /\ tasks[i].at = "remove temp_input"
        /\ files' = files \ {tasks[i].temp_input}
        /\ IF tasks[i].temp_input \in files
           THEN GoesOn(i, [tasks[i] EXCEPT !.at = "exists final_pdf_path"], {})
           ELSE Ends(i, "FileNotFoundError")

\* if final_pdf_path and final_pdf_path != temp_input and
\* os.path.exists(final_pdf_path); process_task returns when the test fails
ExistsFinalPdfPath ==
    \E i \in DOMAIN tasks :
        /\ tasks[i].at = "exists final_pdf_path"
        /\ files' = files
        /\ IF /\ tasks[i].final_pdf_path # None
              /\ tasks[i].final_pdf_path # tasks[i].temp_input
              /\ tasks[i].final_pdf_path \in files
           THEN GoesOn(i, [tasks[i] EXCEPT !.at = "remove final_pdf_path"], {})
           ELSE Ends(i, "")

\* os.remove(final_pdf_path), and the return of process_task
RemoveFinalPdfPath ==
    \E i \in DOMAIN tasks :
        /\ tasks[i].at = "remove final_pdf_path"
        /\ files' = files \ {tasks[i].final_pdf_path}
        /\ Ends(i, IF tasks[i].final_pdf_path \in files THEN "" ELSE "FileNotFoundError")

NextTask ==
    \/ ProcessEndpoint
    \/ RequestsGet
    \/ CompressAndStandardize
    \/ PdfSave
    \/ ConverterConvert
    \/ AgentRunSync
    \/ CompletedCallback
    \/ FailedCallback
    \/ ExistsTempInput
    \/ RemoveTempInput
    \/ ExistsFinalPdfPath
    \/ RemoveFinalPdfPath

SpecTask == InitTask /\ [][NextTask]_vars

----------------------------------------------------------------------------
(* What the properties below read from a call and its outcome *)

ExtractionOps == {"process_document_with_schema", "parse_pdf_node", "process_job"}
DirectOps ==
    {"process_document_with_schema", "_extract_values_from_structured_output",
     "parse_pdf_node"}
ConfidenceOps == {"_calculate_confidence", "processing_engine_calculate_confidence"}

\* the direct operations that end with the loop over the fields or with a dict
\* built from its result: what they raise, the loop has raised
SchemaExtractionOps == {"_extract_values_from_structured_output", "parse_pdf_node"}

\* the schema of the call
CallSchema ==
    IF call.op = "parse_pdf_node" THEN call.user_schema
    ELSE IF call.op = "process_job" THEN call.schema_json.schema
    ELSE call.schema

\* the text that the strategies of an extraction call search
CallContent ==
    IF call.op \in {"process_document_with_schema",
                    "_extract_values_from_structured_output"}
    THEN call.text_content \o <<"\n", "\n">> \o call.ocr_content
    ELSE IF call.op = "parse_pdf_node"
    THEN call.text_content \o <<"\n", "\n">> \o call.text_content
    ELSE call.markdown_content

\* the mapping that an extraction call returned
Values ==
    IF call.op = "process_document_with_schema" THEN ret.value.extracted_data
    ELSE IF call.op = "_extract_values_from_structured_output" THEN ret.value
    ELSE IF call.op = "parse_pdf_node" THEN ret.value.extracted_fields
    ELSE ret.value.result

\* the confidence that a call returned
Confidence ==
    IF call.op \in ConfidenceOps THEN ret.value ELSE ret.value.confidence

\* a process_job request that gets past the checks of its secret and its JSON
Accepted == call.op = "process_job" => call.secret_ok /\ call.schema_json.valid

HasNames(schema) == \A k \in 1..Len(schema) : "name" \in DOMAIN schema[k]

\* no later field of the schema has the name of field k, so that the entry of
\* that name is the value of field k
LastWithName(schema, k) ==
    \A j \in (k + 1)..Len(schema) : schema[j]["name"] # schema[k]["name"]

\* the strategy that the type of a field selects in the direct extractors
StrategyOf(field) ==
    IF Get(field, "type", "text") \in {"currency", "date", "number"}
    THEN Get(field, "type", "text")
    ELSE "text"

KindName(kind) ==
    CASE kind = "currency" -> <<"c", "u", "r", "r", "e", "n", "c", "y">>
      [] kind = "date" -> <<"d", "a", "t", "e">>
      [] kind = "number" -> <<"n", "u", "m", "b", "e", "r">>
      [] OTHER -> <<"t", "e", "x", "t">>

\* the keywords that a strategy adds to the name and the instruction
TypeKeywords(kind) ==
    CASE kind = "currency" -> {<<"t", "o", "t", "a", "l">>, <<"a", "m", "o", "u", "n", "t">>, <<"c", "o", "s", "t">>, <<"p", "r", "i", "c", "e">>}
      [] kind = "date" -> {<<"d", "a", "t", "e">>, <<"i", "n", "v", "o", "i", "c", "e", " ", "d", "a", "t", "e">>, <<"b", "i", "l", "l", " ", "d", "a", "t", "e">>, <<"i", "s", "s", "u", "e", "d">>}
      [] kind = "number" -> {<<"n", "u", "m", "b", "e", "r">>, <<"c", "o", "u", "n", "t">>, <<"q", "t", "y">>, <<"q", "u", "a", "n", "t", "i", "t", "y">>}
      [] OTHER -> {}

\* content has no substring that the pattern of the strategy matches
NoPattern(kind, content) ==
    CASE kind = "currency" -> FirstCurrency(content) = NoMatch
      [] kind = "date" -> FirstDateOf(4, content) = NoMatch
      [] kind = "number" -> FirstNumber(content) = NoMatch
      [] OTHER -> TRUE

NoKeywordLine(content, keywords) ==
    \A k \in 1..Len(split(content)) : ~AnyKeywordIn(keywords, split(content)[k])

\* the number of values of the call's mapping that the confidence counts
SuccessCount == Cardinality(SuccessfulKeys(call.extracted_data))

----------------------------------------------------------------------------
(* C1 *)

\* the names of the fields of the schema are distinct
DistinctNames(schema) ==
    \A j \in 1..Len(schema) : \A k \in 1..Len(schema) :
        schema[j]["name"] = schema[k]["name"] => j = k

\* C1, as claimed, for the schemas whose field names are distinct: the
\* mapping that schema extraction returns has exactly len(schema) entries and
\* holds the name of every field of the schema, whatever the text and the
\* types of the fields.
C1_OneEntryPerField ==
    (call.op \in ExtractionOps /\ Returned /\ DistinctNames(CallSchema)) =>
        /\ Cardinality(DOMAIN Values) = Len(CallSchema)
        /\ \A k \in 1..Len(CallSchema) : CallSchema[k]["name"] \in DOMAIN Values

----------------------------------------------------------------------------
(* C2 *)

\* the values that the currency strategy found for the fields of the call
FoundCurrencyValues ==
    {v \in {Values[CallSchema[k]["name"]] :
               k \in {j \in 1..Len(CallSchema) :
                         /\ StrategyOf(CallSchema[j]) = "currency"
                         /\ LastWithName(CallSchema, j)}} :
        ~startswith(v, <<"N", "o", " ", "c", "u", "r", "r", "e", "n", "c", "y", " ", "f", "o", "u", "n", "d", " ", "f", "o", "r", ":", " ">>)}

\* the call of the example: the field Total of type currency, and the text
\* "Total: $1,234.56"
TotalExample ==
    /\ call.op \in DirectOps
    /\ call.text_content = <<"T", "o", "t", "a", "l", ":", " ", "$", "1", ",", "2", "3", "4", ".", "5", "6">>
    /\ call.op = "process_document_with_schema" => call.ocr_content = <<>>
    /\ Len(CallSchema) = 1
    /\ HasNames(CallSchema)
    /\ CallSchema[1]["name"] = <<"T", "o", "t", "a", "l">>
    /\ StrategyOf(CallSchema[1]) = "currency"

\* C2, as claimed: a found currency value holds neither ',' nor '$', and the
\* example gives "1234.56".
C2_NoCommaNoDollar ==
    (call.op \in DirectOps /\ Returned) =>
        /\ \A v \in FoundCurrencyValues : ~Contains(<<",">>, v) /\ ~Contains(<<"$">>, v)
        /\ TotalExample => Values[<<"T", "o", "t", "a", "l">>] = <<"1", "2", "3", "4", ".", "5", "6">>

\* C2, amended: a found currency value holds no ','; the '$' of the matched
\* amount stays, and the example gives "$1234.56".
C2_CommasRemovedDollarKept ==
    (call.op \in DirectOps /\ Returned) =>
        /\ \A v \in FoundCurrencyValues : ~Contains(<<",">>, v)
        /\ TotalExample => Values[<<"T", "o", "t", "a", "l">>] = <<"$", "1", "2", "3", "4", ".", "5", "6">>

C2_Witness ==
    /\ TotalExample
    /\ Returned
    /\ FoundCurrencyValues = {<<"$", "1", "2", "3", "4", ".", "5", "6">>}

----------------------------------------------------------------------------
(* C3 *)

\* C3, as claimed: for a schema of n > 0 fields of which k are counted as
\* successes, _calculate_confidence returns k / n: confidence * n = k.
C3_PlainRatio ==
    (call.op \in ConfidenceOps /\ Returned /\ call.schema # <<>>) =>
        ret.value.num * Len(call.schema) = SuccessCount * ret.value.den

\* C3, amended: _calculate_confidence returns min(1, k/n + b * k), where k
\* counts the values that are not empty and do not start with "No ", and b is
\* 0.02 in sarah_ai_direct_extraction.py and 0.05 in
\* sarah_ai_processing_engine.py.
C3_RatioPlusBoost ==
    (call.op \in ConfidenceOps /\ Returned /\ call.schema # <<>>) =>
        LET n == Len(call.schema)
            b == IF call.op = "_calculate_confidence"
                 THEN BoostPercent ELSE EngineBoostPercent
            hundredths == 100 * SuccessCount + b * SuccessCount * n
        IN  ret.value.num * 100 * n
                = ret.value.den * (IF hundredths > 100 * n THEN 100 * n ELSE hundredths)

\* one success of two fields gives 0.52
C3_Witness ==
    /\ call.op = "_calculate_confidence"
    /\ Returned
    /\ Len(call.schema) = 2
    /\ SuccessCount = 1
    /\ ret.value = Fraction(13, 25)

----------------------------------------------------------------------------
(* C4 *)

\* C4: every confidence that a confidence computation or a schema processor
\* returns lies in [0.0, 1.0].
C4_ConfidenceInUnitInterval ==
    (call.op \in ConfidenceOps \cup ExtractionOps /\ Returned) =>
        Leq(Zero, Confidence) /\ Leq(Confidence, One)

\* every field succeeded: ratio and boosts together exceed 1, and 1.0 is returned
C4_Witness ==
    /\ call.op = "_calculate_confidence"
    /\ Returned
    /\ Len(call.schema) >= 1
    /\ SuccessCount = Len(call.schema)
    /\ ret.value = One

----------------------------------------------------------------------------
(* C5 *)

\* C5, as claimed: for an empty schema every confidence computation returns
\* 0.0, and none fails.
C5_EmptySchemaZero ==
    (/\ call.op \in ConfidenceOps \cup ExtractionOps
     /\ ret.raised # "pending"
     /\ Accepted
     /\ call.op = "process_job" => ~call.schema_json.empty
     /\ CallSchema = <<>>) =>
        Returned /\ Confidence = Zero

----------------------------------------------------------------------------
(* C6 *)

\* C6: for the schema of the call and every mapping A over its names, if A
\* has no more successes than the mapping of the call, then the confidence
\* of A is at most the confidence returned.
C6_MonotoneInSuccesses ==
    (call.op = "_calculate_confidence" /\ Returned) =>
        \A A \in [NamesOf(call.schema) -> ValuePool] :
            Cardinality(SuccessfulKeys(A)) <= SuccessCount =>
                Leq(_calculate_confidence(A, call.schema), ret.value)

\* a mapping with fewer successes has a confidence that is strictly smaller
C6_Witness ==
    /\ call.op = "_calculate_confidence"
    /\ Returned
    /\ \E A \in [NamesOf(call.schema) -> ValuePool] :
           /\ Cardinality(SuccessfulKeys(A)) < SuccessCount
           /\ ~Leq(ret.value, _calculate_confidence(A, call.schema))

----------------------------------------------------------------------------
(* C7 *)

\* two calls on the same processor with the same text and the same schema
SameInputs(a, b) ==
    /\ a.processor = b.processor
    /\ a.call = b.call

\* the values mapping and the confidence that a call has returned: all of
\* the dict of the simulation processor, and of the ProcessingResult of the
\* direct extractor all but the texts, the schema and the timestamp
ValuesAndConfidence(entry) ==
    IF entry.processor = "simulation" THEN entry.outcome.value
    ELSE [extracted_data |-> entry.outcome.value.extracted_data,
          confidence |-> entry.outcome.value.confidence]

\* C7: two calls on one processor, the simulation processor or the direct
\* extractor, with the same text and the same schema raise the same
\* exception or return the same values mapping and the same confidence,
\* whatever was called before and between them and whatever the clock shows.
C7_SameInputsSameResult ==
    \A i \in DOMAIN trace : \A j \in DOMAIN trace :
        SameInputs(trace[i], trace[j]) =>
            /\ trace[i].outcome.raised = trace[j].outcome.raised
            /\ trace[i].outcome.raised = "" =>
                   ValuesAndConfidence(trace[i]) = ValuesAndConfidence(trace[j])

\* the direct extractor found values, was called with another schema that
\* gave values under other names, and was called as at first a second later:
\* the two results differ in the timestamp alone
C7_Witness ==
    /\ Len(trace) = 3
    /\ trace[1].processor = "direct"
    /\ trace[1].outcome.raised = ""
    /\ SameInputs(trace[1], trace[3])
    /\ trace[2].processor = "direct"
    /\ trace[2].outcome.raised = ""
    /\ DOMAIN trace[2].outcome.value.extracted_data # {}
    /\ DOMAIN trace[2].outcome.value.extracted_data
           \cap DOMAIN trace[1].outcome.value.extracted_data = {}
    /\ trace[3].outcome.raised = ""
    /\ DOMAIN trace[3].outcome.value.extracted_data # {}
    /\ trace[3].outcome.value.confidence = One
    /\ trace[3].outcome.value.processing_timestamp
           # trace[1].outcome.value.processing_timestamp

----------------------------------------------------------------------------
(* C8 *)

\* field k of the call has a name and an instruction that are not empty, and
\* the content has neither a line with one of its keywords nor a match of
\* the pattern of its strategy
NothingToFind(k) ==
    LET field == CallSchema[k]
        instruction == Get(field, "instruction", <<>>)
    IN  /\ LastWithName(CallSchema, k)
        /\ field["name"] # <<>>
        /\ instruction # None
        /\ instruction # <<>>
        /\ NoKeywordLine(CallContent,
                         {lower(field["name"]), lower(instruction)}
                             \cup TypeKeywords(StrategyOf(field)))
        /\ NoPattern(StrategyOf(field), CallContent)

\* f"No {kind} found for: {field_name}"
Sentinel(field) ==
    <<"N", "o", " ">> \o KindName(StrategyOf(field)) \o <<" ", "f", "o", "u", "n", "d", " ", "f", "o", "r", ":", " ">> \o field["name"]

\* C8: a field for which the content has nothing to find gets the not-found
\* sentinel of its strategy, which names the field.
C8_NotFoundSentinel ==
    (call.op \in DirectOps /\ Returned) =>
        \A k \in 1..Len(CallSchema) :
            NothingToFind(k) => Values[CallSchema[k]["name"]] = Sentinel(CallSchema[k])

\* a text field whose name and instruction are in no line
C8_Witness ==
    /\ call.op \in DirectOps
    /\ Returned
    /\ \E k \in 1..Len(CallSchema) :
           /\ NothingToFind(k)
           /\ StrategyOf(CallSchema[k]) = "text"
           /\ Values[CallSchema[k]["name"]] = <<"N", "o", " ", "t", "e", "x", "t", " ", "f", "o", "u", "n", "d", " ", "f", "o", "r", ":", " ">> \o CallSchema[k]["name"]

----------------------------------------------------------------------------
(* C9 *)

\* C9, as claimed: extraction over fields that all have a name raises
\* nothing and gives every field a string.
C9_NeverRaises ==
    (call.op \in SchemaExtractionOps /\ ret.raised # "pending" /\ HasNames(CallSchema)) =>
        /\ Returned
        /\ \A name \in DOMAIN Values : Values[name] # None

----------------------------------------------------------------------------
(* C10 *)

\* the fields of the call whose type is none of text, currency, number, date
UnknownTypeFields ==
    {k \in 1..Len(CallSchema) :
        Get(CallSchema[k], "type", "text") \notin {"text", "currency", "number", "date"}}

\* C10, as claimed: in the extraction over a schema of named fields whose
\* instructions are strings, a field of unknown type is no error and has an
\* entry in the result, which in the direct extractors is the value of the
\* text strategy.
C10_UnknownTypeIsText ==
    (/\ call.op \in SchemaExtractionOps \cup {"process_job"}
     /\ ret.raised # "pending"
     /\ Accepted
     /\ HasNames(CallSchema)
     /\ \A k \in 1..Len(CallSchema) : Get(CallSchema[k], "instruction", <<>>) # None) =>
        /\ Returned
        /\ \A k \in UnknownTypeFields :
               /\ CallSchema[k]["name"] \in DOMAIN Values
               /\ (call.op \in DirectOps /\ LastWithName(CallSchema, k)) =>
                      Values[CallSchema[k]["name"]] =
                          _extract_text_value(CallContent, CallSchema[k]["name"],
                              Get(CallSchema[k], "instruction", <<>>)).value

----------------------------------------------------------------------------
(* C11 *)

\* the lines of the content, in order, that hold one of the keywords
KeywordLines(keywords) ==
    {k \in 1..Len(split(CallContent)) : AnyKeywordIn(keywords, split(CallContent)[k])}

\* field k of a returned direct call is taken with the text strategy, its
\* instruction is not empty, and some line holds its name or its instruction
TextKeywordCase(k) ==
    /\ StrategyOf(CallSchema[k]) = "text"
    /\ LastWithName(CallSchema, k)
    /\ Get(CallSchema[k], "instruction", <<>>) # <<>>
    /\ KeywordLines({lower(CallSchema[k]["name"]),
                     lower(Get(CallSchema[k], "instruction", <<>>))}) # {}

\* what is left of s once every leading separator and whitespace character
\* and the trailing whitespace are taken away
WithoutLeadingSeparators(s) ==
    strip(Slice(s, 1 + RunLength(s, 1, Separators \cup Whitespace), Len(s) + 1))

\* the part of the first keyword line of field k that follows the keyword:
\* the name if the line holds it, else the instruction
RemainderAfterKeyword(k) ==
    LET name_lower == lower(CallSchema[k]["name"])
        instruction_lower == lower(Get(CallSchema[k], "instruction", <<>>))
        line == split(CallContent)[Min(KeywordLines({name_lower, instruction_lower}))]
        keyword == IF Contains(name_lower, lower(line))
                   THEN name_lower ELSE instruction_lower
    IN  Slice(line, find(lower(line), keyword) + Len(keyword), Len(line) + 1)

\* the call of the example: the field Vendor with instruction "supplier
\* name" and the text "Vendor: Home Depot"
VendorExample ==
    /\ call.op = "process_document_with_schema"
    /\ call.text_content = <<"V", "e", "n", "d", "o", "r", ":", " ", "H", "o", "m", "e", " ", "D", "e", "p", "o", "t">>
    /\ call.ocr_content = <<>>
    /\ call.schema = << [name |-> <<"V", "e", "n", "d", "o", "r">>, type |-> "text",
                         instruction |-> <<"s", "u", "p", "p", "l", "i", "e", "r", " ", "n", "a", "m", "e">>] >>

\* C11, as claimed: the value of a text field of which a line holds a
\* keyword is the rest of the first such line after the keyword, without its
\* leading separators and surrounding whitespace; it begins with neither a
\* separator nor whitespace, and the example gives "Home Depot".
C11_RemainderWithoutSeparators ==
    (call.op \in DirectOps /\ Returned) =>
        /\ \A k \in 1..Len(CallSchema) :
               TextKeywordCase(k) =>
                   LET value == Values[CallSchema[k]["name"]]
                   IN  /\ value = WithoutLeadingSeparators(RemainderAfterKeyword(k))
                       /\ value # <<>> => value[1] \notin Separators \cup Whitespace
        /\ VendorExample => Values[<<"V", "e", "n", "d", "o", "r">>] = <<"H", "o", "m", "e", " ", "D", "e", "p", "o", "t">>

----------------------------------------------------------------------------
(* C12 *)

\* field k of a returned direct call is taken with the date strategy and its
\* instruction is not empty
DateCase(k) ==
    /\ StrategyOf(CallSchema[k]) = "date"
    /\ LastWithName(CallSchema, k)
    /\ Get(CallSchema[k], "instruction", <<>>) # <<>>

\* the keyword lines of date field k
DateKeywordLines(k) ==
    KeywordLines({lower(CallSchema[k]["name"]),
                  lower(Get(CallSchema[k], "instruction", <<>>))}
                 \cup TypeKeywords("date"))

\* the keyword lines of date field k in which pattern p has a match
DatedLines(k, p) ==
    {j \in DateKeywordLines(k) : FirstDate(p, split(CallContent)[j]) # NoMatch}

\* the call of the example: the field Invoice Date and a text whose two
\* lines both hold the keyword "date", the first with a YYYY-MM-DD date and
\* the second with a MM/DD/YYYY date
DateExample ==
    /\ call.op = "_extract_values_from_structured_output"
    /\ call.text_content = <<"D", "a", "t", "e", ":", " ", "2", "0", "2", "5", "-", "1", "2", "-", "2", "6", "\n", "I", "n", "v", "o", "i", "c", "e", " ", "D", "a", "t", "e", ":", " ", "1", "2", "/", "2", "6", "/", "2", "0", "2", "5">>
    /\ call.ocr_content = <<>>
    /\ Len(call.schema) = 1
    /\ HasNames(call.schema)
    /\ call.schema[1]["name"] = <<"I", "n", "v", "o", "i", "c", "e", " ", "D", "a", "t", "e">>
    /\ DateCase(1)

\* C12, as claimed: among the keyword lines the pattern priority decides: the
\* value is a match of the first pattern of date_patterns that matches on any
\* keyword line, so the example gives "12/26/2025".
C12_PatternPriorityDecides ==
    (call.op \in DirectOps /\ Returned) =>
        /\ \A k \in 1..Len(CallSchema) :
               (DateCase(k) /\ \E p \in 1..4 : DatedLines(k, p) # {}) =>
                   LET first == Min({p \in 1..4 : DatedLines(k, p) # {}})
                   IN  Values[CallSchema[k]["name"]] \in
                           {FirstDate(first, split(CallContent)[j]) :
                                j \in DatedLines(k, first)}
        /\ DateExample => Values[<<"I", "n", "v", "o", "i", "c", "e", " ", "D", "a", "t", "e">>] = <<"1", "2", "/", "2", "6", "/", "2", "0", "2", "5">>

\* C12, amended: the first keyword line that holds a date in any of the four
\* patterns decides, and the pattern priority chooses only among the matches
\* on that line; the example gives "2025-12-26".
C12_FirstDatedLineDecides ==
    (call.op \in DirectOps /\ Returned) =>
        /\ \A k \in 1..Len(CallSchema) :
               (DateCase(k) /\ \E p \in 1..4 : DatedLines(k, p) # {}) =>
                   LET line == Min(UNION {DatedLines(k, p) : p \in 1..4})
                       first == Min({p \in 1..4 : line \in DatedLines(k, p)})
                   IN  Values[CallSchema[k]["name"]] =
                           FirstDate(first, split(CallContent)[line])
        /\ DateExample => Values[<<"I", "n", "v", "o", "i", "c", "e", " ", "D", "a", "t", "e">>] = <<"2", "0", "2", "5", "-", "1", "2", "-", "2", "6">>

C12_Witness ==
    /\ DateExample
    /\ Returned
    /\ DatedLines(1, 1) = {2}
    /\ DatedLines(1, 2) = {1}

----------------------------------------------------------------------------
(* C13 *)

\* the call of the end-to-end scenario
EndToEndExample ==
    /\ call.op = "process_document_with_schema"
    /\ call.text_content = Invoice
    /\ call.ocr_content = <<>>
    /\ call.schema = EndToEndSchema

\* C13, as claimed: the end-to-end scenario returns Vendor "Home Depot",
\* Total "881.27", Invoice Date "12/20/2025" and confidence 1.0.
C13_EndToEndWithoutDollar ==
    (EndToEndExample /\ ret.raised # "pending") =>
        /\ Returned
        /\ DOMAIN Values = {<<"V", "e", "n", "d", "o", "r">>, <<"T", "o", "t", "a", "l">>, <<"I", "n", "v", "o", "i", "c", "e", " ", "D", "a", "t", "e">>}
        /\ Values[<<"V", "e", "n", "d", "o", "r">>] = <<"H", "o", "m", "e", " ", "D", "e", "p", "o", "t">>
        /\ Values[<<"T", "o", "t", "a", "l">>] = <<"8", "8", "1", ".", "2", "7">>
        /\ Values[<<"I", "n", "v", "o", "i", "c", "e", " ", "D", "a", "t", "e">>] = <<"1", "2", "/", "2", "0", "/", "2", "0", "2", "5">>
        /\ Confidence = One

\* C13, amended: the end-to-end scenario returns Vendor "Home Depot", Total
\* "$881.27" (the dollar sign of the matched amount is kept), Invoice Date
\* "12/20/2025" and confidence 1.0.
C13_EndToEnd ==
    (EndToEndExample /\ ret.raised # "pending") =>
        /\ Returned
        /\ DOMAIN Values = {<<"V", "e", "n", "d", "o", "r">>, <<"T", "o", "t", "a", "l">>, <<"I", "n", "v", "o", "i", "c", "e", " ", "D", "a", "t", "e">>}
        /\ Values[<<"V", "e", "n", "d", "o", "r">>] = <<"H", "o", "m", "e", " ", "D", "e", "p", "o", "t">>
        /\ Values[<<"T", "o", "t", "a", "l">>] = <<"$", "8", "8", "1", ".", "2", "7">>
        /\ Values[<<"I", "n", "v", "o", "i", "c", "e", " ", "D", "a", "t", "e">>] = <<"1", "2", "/", "2", "0", "/", "2", "0", "2", "5">>
        /\ Confidence = One

C13_Witness ==
    /\ EndToEndExample
    /\ Returned
    /\ Len(call.schema) = 3
    /\ Confidence = One

----------------------------------------------------------------------------
(* C14 *)

\* the entries of the schema of the call, counted from 0, that lack a name
Nameless == {i \in 0..(Len(CallSchema) - 1) : "name" \notin DOMAIN CallSchema[i + 1]}

\* C14, as claimed: an extraction call whose schema has an entry without a
\* name fails with a validation error that carries the index of the first
\* such entry, and returns no values for the entries before it.
C14_ValidationErrorWithIndex ==
    (/\ call.op \in ExtractionOps
     /\ ret.raised # "pending"
     /\ Accepted
     /\ Nameless # {}) =>
        /\ ~Returned
        /\ ret.raised = "ValidationError"
        /\ ret.value = Min(Nameless)

----------------------------------------------------------------------------
(* C15 *)

\* the rows of documents, not DELETED, that have the project and the hash
WithHash(documents, project_id, sha256) ==
    {i \in DOMAIN documents : /\ documents[i].project_id = project_id
                              /\ documents[i].sha256 = sha256
                              /\ documents[i].status # "DELETED"}

\* the header is "Bearer " and a key of the project
KeyOf(authorization, project_id) ==
    \E i \in DOMAIN db.api_keys :
        /\ authorization = <<"B", "e", "a", "r", "e", "r", " ">> \o db.api_keys[i].key
        /\ db.api_keys[i].project_id = project_id

\* a step in which the handler op takes a request and runs
Handles(op) == call = NoCall /\ call' # NoCall /\ call'.op = op

\* C15: documents never holds two rows, not DELETED, of one project with one
\* sha256; a create_document with the key of its project inserts no row and
\* returns the id of the row that is there with deduped = true when there is
\* one, and inserts one row when there is none.
C15_DedupByContentHash ==
    [][Handles("create_document") =>
          LET document == call'.document
              present == WithHash(db.documents, document.project_id, document.sha256)
          IN  /\ \A i, j \in DOMAIN db'.documents :
                     (/\ i # j
                      /\ db'.documents[i].status # "DELETED"
                      /\ db'.documents[j].status # "DELETED"
                      /\ db'.documents[i].project_id = db'.documents[j].project_id)
                     => db'.documents[i].sha256 # db'.documents[j].sha256
              /\ (KeyOf(call'.authorization, document.project_id) /\ present # {}) =>
                     /\ db' = db
                     /\ ret'.value.success
                     /\ \E i \in present : ret'.value.data.id = db.documents[i].id
                     /\ "deduped" \in DOMAIN ret'.value.data
                     /\ ret'.value.data.deduped
              /\ (KeyOf(call'.authorization, document.project_id) /\ present = {}) =>
                     /\ Len(db'.documents) = Len(db.documents) + 1
                     /\ ret'.value.success
                     /\ "deduped" \notin DOMAIN ret'.value.data
                     /\ WithHash(db'.documents, document.project_id, document.sha256)
                            = {Len(db'.documents)}
    ]_vars

\* a create_document was answered with deduped = true while two documents
\* are stored
C15_Witness ==
    /\ call # NoCall
    /\ call.op = "create_document"
    /\ Returned
    /\ ret.value.success
    /\ "deduped" \in DOMAIN ret.value.data
    /\ Len(db.documents) = 2

----------------------------------------------------------------------------
(* C16 *)

\* the endpoints that read the Authorization header
AuthenticatedEndpoints ==
    {"create_document", "get_document", "upload_document", "complete_document",
     "query_documents", "create_webhook"}

\* no header, or one that does not start with "Bearer "
MissingApiKey(authorization) ==
    authorization = None \/ ~startswith(authorization, <<"B", "e", "a", "r", "e", "r", " ">>)

\* a header "Bearer " and a key that api_keys does not hold
UnknownApiKey(authorization) ==
    /\ ~MissingApiKey(authorization)
    /\ \A i \in DOMAIN db.api_keys :
           db.api_keys[i].key # Slice(authorization, 8, Len(authorization) + 1)

\* C16: on the standardized server, each of the six authenticated endpoints
\* answers a request without a "Bearer " header with 401 MISSING_API_KEY and
\* a request with an unknown key with 403 INVALID_API_KEY, and in both cases
\* the handler ends there and leaves every table as it was.
C16_RefusedWithoutEffect ==
    [][\A op \in AuthenticatedEndpoints :
          (Handles(op) /\ db.server = "standardized") =>
              /\ MissingApiKey(call'.authorization) =>
                     /\ ret' = Return(error_response(401, "MISSING_API_KEY"))
                     /\ db' = db
                     /\ pending' = pending
              /\ UnknownApiKey(call'.authorization) =>
                     /\ ret' = Return(error_response(403, "INVALID_API_KEY"))
                     /\ db' = db
                     /\ pending' = pending
    ]_vars

\* the standardized server has refused an unknown key on an upload while a
\* document is stored
C16_Witness ==
    /\ db # <<>>
    /\ db.server = "standardized"
    /\ call # NoCall
    /\ call.op = "upload_document"
    /\ UnknownApiKey(call.authorization)
    /\ Returned
    /\ ret.value.status_code = 403
    /\ Len(db.documents) >= 1

----------------------------------------------------------------------------
(* C17 *)

Statuses == {"CREATED", "UPLOADED", "PROCESSING", "READY", "FAILED"}

\* the rows of documents that the request names with a key of their project
Addressed(request) ==
    {i \in DOMAIN db.documents :
        /\ db.documents[i].id = request.document_id
        /\ KeyOf(request.authorization, db.documents[i].project_id)}

\* C17: over every sequence of non-overlapping requests, each status is one
\* of CREATED, UPLOADED, PROCESSING, READY, FAILED; a document becomes READY
\* or FAILED only from PROCESSING; complete on a document that is not UPLOADED
\* answers 400 and changes nothing, and on an UPLOADED one makes it PROCESSING
\* and goes on to the processing; upload on a document that is PROCESSING,
\* READY or FAILED answers 400 and changes nothing.
C17_Lifecycle ==
    [][/\ \A i \in DOMAIN db'.documents : db'.documents[i].status \in Statuses
       /\ \A i \in DOMAIN db.documents :
              (/\ db'.documents[i].status \in {"READY", "FAILED"}
               /\ db'.documents[i].status # db.documents[i].status)
              => db.documents[i].status = "PROCESSING"
       /\ Handles("complete_document") =>
              \A i \in Addressed(call') :
                  IF db.documents[i].status = "UPLOADED"
                  THEN /\ db'.documents[i].status = "PROCESSING"
                       /\ ret'.raised = "pending"
                       /\ pending' = <<call'>>
                  ELSE /\ ret'.raised = ""
                       /\ ret'.value.status_code = 400
                       /\ db' = db
                       /\ pending' = <<>>
       /\ Handles("upload_document") =>
              \A i \in Addressed(call') :
                  db.documents[i].status \in {"PROCESSING", "READY", "FAILED"}
                  => /\ ret'.raised = ""
                     /\ ret'.value.status_code = 400
                     /\ db' = db
                     /\ pending' = <<>>
    ]_vars

\* complete was refused with 400 on a document that is READY
C17_Witness ==
    /\ call # NoCall
    /\ call.op = "complete_document"
    /\ Returned
    /\ ret.value.status_code = 400
    /\ \E i \in Addressed(call) : db.documents[i].status = "READY"

----------------------------------------------------------------------------
(* C18 *)

\* the emails of the sender that passed the rate limit and were received
\* after the time since, in the order of their arrival
AcceptedSince(emails, sender, since) ==
    SelectSeq(emails, LAMBDA email : /\ email.sender = sender
                                     /\ email.status # "dropped"
                                     /\ email.time > since)

\* C18: for every sender and every instant t, at most 5 emails of the sender
\* received in (t - 3600, t] have passed the rate limit (the number is
\* greatest at the time of a receipt, so these are the instants looked at);
\* and an email that arrives while 5 passed emails of its sender lie within
\* the last hour is answered dropped with reason rate_limit, creates no job,
\* and leaves as the sender's timestamps those of the 5 emails.
C18_RateLimit ==
    [][/\ \A sender \in Senders : \A k \in DOMAIN received' :
              Len(SelectSeq(AcceptedSince(received', sender, received'[k].time - OneHour),
                            LAMBDA email : email.time <= received'[k].time))
                  <= EmailsPerHour
       /\ (call' # NoCall /\ call'.op = "simulate_email_received") =>
              LET within == AcceptedSince(received, call'.sender, utcnow' - OneHour)
              IN  Len(within) = EmailsPerHour =>
                      /\ ret' = Return([status |-> "dropped", reason |-> "rate_limit"])
                      /\ jobs_db' = jobs_db
                      /\ TimestampsOf(rate_limiter', call'.sender)
                             = [k \in DOMAIN within |-> within[k].time]
    ]_vars

\* the sixth email of a sender was dropped one second before the hour of the
\* first five ended, and five jobs stand
C18_Witness ==
    /\ call # NoCall
    /\ call.op = "simulate_email_received"
    /\ Returned
    /\ ret.value.status = "dropped"
    /\ utcnow = OneHour - 1
    /\ Len(jobs_db) = EmailsPerHour

----------------------------------------------------------------------------
(* C19 *)

\* the fields of the call's schema that have a name, an empty instruction
\* and the given strategy, and whose entry in the result is theirs
EmptyInstructionFields(kind) ==
    {k \in 1..Len(CallSchema) :
        /\ "name" \in DOMAIN CallSchema[k]
        /\ CallSchema[k]["name"] # None
        /\ \A j \in (k + 1)..Len(CallSchema) :
               "name" \in DOMAIN CallSchema[j] /\ CallSchema[j]["name"] # CallSchema[k]["name"]
        /\ Get(CallSchema[k], "instruction", <<>>) = <<>>
        /\ StrategyOf(CallSchema[k]) = kind}

\* C19: an empty instruction is no keyword. A text field with an empty
\* instruction whose name is in no line of the content gets the not-found
\* sentinel; a currency field with an empty instruction gets the amount of
\* the line that holds its name when no earlier line holds a keyword.
C19_EmptyInstructionNoSignal ==
    (call.op \in DirectOps /\ Returned) =>
        LET lines == split(CallContent)
        IN  /\ \A k \in EmptyInstructionFields("text") :
                   (\A n \in DOMAIN lines :
                        ~Contains(lower(CallSchema[k]["name"]), lower(lines[n])))
                   => Values[CallSchema[k]["name"]] = Sentinel(CallSchema[k])
            /\ \A k \in EmptyInstructionFields("currency") :
                   \A n \in DOMAIN lines :
                       (/\ Contains(lower(CallSchema[k]["name"]), lower(lines[n]))
                        /\ FirstCurrency(lines[n]) # NoMatch
                        /\ \A e \in 1..(n - 1) :
                               ~AnyKeywordIn({lower(CallSchema[k]["name"])}
                                                 \cup TypeKeywords("currency"),
                                             lines[e]))
                       => Values[CallSchema[k]["name"]]
                              = RemoveCommas(FirstCurrency(lines[n]))

----------------------------------------------------------------------------
(* C20 *)

WholeDollar == <<"A", "m", "o", "u", "n", "t", " ", "d", "u", "e", " ", "$", "5", "0", "0">>
SingleDecimal == <<"A", "m", "o", "u", "n", "t", " ", "d", "u", "e", " ", "$", "5", "0", "0", ".", "5">>
ShortAmount == <<"A", "m", "o", "u", "n", "t", " ", "d", "u", "e", " ", "$", "5", ".", "5">>

\* s has a substring of the shape [\d,]+\.?\d{2}
HasAmount(s) ==
    \E i \in 1..Len(s) : \E j \in i..Len(s) :
        /\ \A n \in i..j : s[n] \in Digits \cup {","}
        /\ \/ IsDigitAt(s, j + 1) /\ IsDigitAt(s, j + 2)
           \/ j + 1 <= Len(s) /\ s[j + 1] = "." /\ IsDigitAt(s, j + 2) /\ IsDigitAt(s, j + 3)

\* the currency fields of the call's schema whose entry in the result is theirs
CurrencyFields ==
    {k \in 1..Len(CallSchema) :
        /\ "name" \in DOMAIN CallSchema[k]
        /\ CallSchema[k]["name"] # None
        /\ \A j \in (k + 1)..Len(CallSchema) :
               "name" \in DOMAIN CallSchema[j] /\ CallSchema[j]["name"] # CallSchema[k]["name"]
        /\ StrategyOf(CallSchema[k]) = "currency"}

\* C20 as claimed: a text whose only amount is "$500" or "$500.5" gives a
\* currency field the not-found sentinel.
C20_WholeDollarNotMatched ==
    (/\ call.op = "process_document_with_schema"
     /\ Returned
     /\ call.text_content \in {WholeDollar, SingleDecimal}) =>
        \A k \in CurrencyFields :
            Values[CallSchema[k]["name"]] = Sentinel(CallSchema[k])

\* C20: a currency field gets the not-found sentinel exactly when the content
\* has no run of digits and commas that is followed by two digits, or by '.'
\* and two digits: "$5.5" gives the sentinel, while "$500" is matched whole
\* (the run gives back two digits) and "$500.5" is matched as "$500".
C20_ShortAmountsNotMatched ==
    (call.op \in DirectOps /\ Returned) =>
        \A k \in CurrencyFields :
            /\ Values[CallSchema[k]["name"]] = Sentinel(CallSchema[k])
                   <=> ~HasAmount(CallContent)
            /\ (call.op = "process_document_with_schema"
                    /\ call.text_content \in {WholeDollar, SingleDecimal})
               => Values[CallSchema[k]["name"]] = <<"$", "5", "0", "0">>
            /\ (call.op = "process_document_with_schema" /\ call.text_content = ShortAmount)
               => Values[CallSchema[k]["name"]] = Sentinel(CallSchema[k])

\* the text "Amount due $500.5" has given a currency field the value "$500"
C20_Witness ==
    /\ call.op = "process_document_with_schema"
    /\ Returned
    /\ call.text_content = SingleDecimal
    /\ CurrencyFields # {}
    /\ \A k \in CurrencyFields : Values[CallSchema[k]["name"]] = <<"$", "5", "0", "0">>

----------------------------------------------------------------------------
(* C21 *)

\* the keywords of the currency strategy for a field
CurrencyKeywords(field) ==
    {lower(field["name"]), lower(Get(field, "instruction", <<>>))}
        \cup TypeKeywords("currency")

\* the lines of the content, by number, that hold a keyword of the field and
\* an amount
KeywordAmountLines(field) ==
    {n \in DOMAIN split(CallContent) :
        /\ AnyKeywordIn(CurrencyKeywords(field), split(CallContent)[n])
        /\ FirstCurrency(split(CallContent)[n]) # NoMatch}

\* C21: the value of a currency field is the first amount of the first line
\* that holds both a keyword and an amount, whatever amounts stand on earlier
\* lines without a keyword; when no line holds both, it is the first amount
\* of the whole text, and the sentinel when there is none.
C21_FirstKeywordLineWithAmount ==
    (call.op \in DirectOps /\ Returned) =>
        \A k \in CurrencyFields :
            Values[CallSchema[k]["name"]] =
                IF KeywordAmountLines(CallSchema[k]) # {}
                THEN RemoveCommas(FirstCurrency(
                         split(CallContent)[Min(KeywordAmountLines(CallSchema[k]))]))
                ELSE IF FirstCurrency(CallContent) # NoMatch
                THEN RemoveCommas(FirstCurrency(CallContent))
                ELSE Sentinel(CallSchema[k])

\* a currency field with an instruction got the amount of the second line,
\* the first line holding an amount and no keyword
C21_Witness ==
    /\ call.op = "_extract_values_from_structured_output"
    /\ Returned
    /\ call.text_content = <<"R", "e", "f", " ", "7", ",", "5", "0", "0", ".", "0", "0", "\n", "T", "o", "t", "a", "l", ":", " ", "$", "1", ",", "2", "3", "4", ".", "5", "6">>
    /\ \E k \in CurrencyFields :
           /\ Get(CallSchema[k], "instruction", <<>>) = <<"t", "o", "t", "a", "l", " ", "a", "m", "o", "u", "n", "t">>
           /\ Min(KeywordAmountLines(CallSchema[k])) = 2
           /\ Values[CallSchema[k]["name"]] = <<"$", "1", "2", "3", "4", ".", "5", "6">>

----------------------------------------------------------------------------
(* C22 *)

\* the mapping over which a call computes its confidence
Mapping ==
    IF call.op = "_calculate_confidence" THEN call.extracted_data ELSE Values

\* the number of values of the mapping that do not start with "No "
WithoutPrefixCount ==
    Cardinality({key \in DOMAIN Mapping : ~startswith(Mapping[key], <<"N", "o", " ">>)})

\* C22: the confidence of SarahAIProcessor and of parse_pdf_node counts a
\* value as a success exactly when it does not start with "No ", the empty
\* string included: _calculate_confidence gives min(1, k/n + 0.02 k) and
\* parse_pdf_node gives k/total for the same count k.
C22_NotFoundPrefixDecides ==
    /\ (/\ call.op \in {"_calculate_confidence", "process_document_with_schema"}
        /\ Returned
        /\ call.schema # <<>>) =>
           LET n == Len(call.schema)
               hundredths == 100 * WithoutPrefixCount + BoostPercent * WithoutPrefixCount * n
           IN  Confidence.num * 100 * n
                   = Confidence.den * (IF hundredths > 100 * n THEN 100 * n ELSE hundredths)
    /\ (call.op = "parse_pdf_node" /\ Returned /\ DOMAIN Mapping # {}) =>
           Confidence.num * Cardinality(DOMAIN Mapping) = Confidence.den * WithoutPrefixCount

----------------------------------------------------------------------------
(* C23 *)

\* the schema with its fields in the order p, a permutation of 1..len(schema)
Reordered(schema, p) == [i \in 1..Len(schema) |-> schema[p[i]]]

\* the outcomes a and b are the same exception, or the same returned value
SameOutcome(a, b) == a.raised = b.raised /\ (a.raised = "" => a.value = b.value)

\* the part of a returned value that C23 speaks of: the mapping and the
\* confidence, without the texts and the schema that a ProcessingResult repeats
MappingAndConfidence(value) ==
    IF call.op = "process_document_with_schema"
    THEN [extracted_data |-> value.extracted_data, confidence |-> value.confidence]
    ELSE value

\* C23: when every field has a name and the names are distinct, the call on
\* any permutation of the schema has the outcome of the call itself: the
\* same mapping and the same confidence.
C23_PermutationInvariant ==
    (/\ call.op \in DirectOps
     /\ ret.raised # "pending"
     /\ HasNames(CallSchema)
     /\ DistinctNames(CallSchema)) =>
        \A p \in Permutations(1..Len(CallSchema)) :
            With(IF call.op = "process_document_with_schema"
                 THEN process_document_with_schema(
                          call.text_content, call.ocr_content,
                          Reordered(CallSchema, p))
                 ELSE IF call.op = "_extract_values_from_structured_output"
                 THEN _extract_values_from_structured_output(
                          call.text_content, call.ocr_content,
                          Reordered(CallSchema, p))
                 ELSE parse_pdf_node(call.text_content, Reordered(CallSchema, p)),
                 LAMBDA reordered :
                     /\ ret.raised = reordered.raised
                     /\ Returned => MappingAndConfidence(ret.value)
                                        = MappingAndConfidence(reordered.value))

\* a call has returned two different values for two fields of different
\* types and names
C23_Witness ==
    /\ call.op = "process_document_with_schema"
    /\ Returned
    /\ Len(call.schema) >= 2
    /\ HasNames(call.schema)
    /\ DistinctNames(call.schema)
    /\ StrategyOf(call.schema[1]) # StrategyOf(call.schema[2])
    /\ Values[call.schema[1]["name"]] # Values[call.schema[2]["name"]]
    /\ ~startswith(Values[call.schema[2]["name"]], <<"N", "o", " ">>)

----------------------------------------------------------------------------
(* C24 *)

\* C24: a call of process leaves every attribute of the processor as it was
\* after construction, and each call made on the instance has the outcome
\* that it has as the first call on a new instance.
C24_NoSharedState ==
    /\ processing_history = <<>>
    /\ \A k \in DOMAIN trace :
           SameOutcome(trace[k].outcome,
                       SimResult(<<>>, trace[k].document_text, trace[k].schema_json))

----------------------------------------------------------------------------
(* C25 *)

\* the fields of the call's schema that are taken with the text strategy and
\* whose entry in the result is theirs
TextFields ==
    {k \in 1..Len(CallSchema) :
        /\ "name" \in DOMAIN CallSchema[k]
        /\ CallSchema[k]["name"] # None
        /\ \A j \in (k + 1)..Len(CallSchema) :
               "name" \in DOMAIN CallSchema[j] /\ CallSchema[j]["name"] # CallSchema[k]["name"]
        /\ StrategyOf(CallSchema[k]) = "text"}

\* the lines that hold the lowercased name or the lowercased instruction of
\* field k
NameOrInstructionLines(k) ==
    KeywordLines({lower(CallSchema[k]["name"]),
                  lower(Get(CallSchema[k], "instruction", <<>>))})

\* C25, as claimed: a text field gets the not-found sentinel exactly when no
\* line holds its lowercased name or instruction; when a line does, the
\* value is what follows the keyword on the first such line, stripped,
\* without one leading separator, and stripped again: neither fallback gives
\* a value.
C25_FirstStepOrSentinel ==
    (call.op \in DirectOps /\ Returned) =>
        \A k \in TextFields :
            /\ Values[CallSchema[k]["name"]] = Sentinel(CallSchema[k])
                   <=> NameOrInstructionLines(k) = {}
            /\ NameOrInstructionLines(k) # {} =>
                   Values[CallSchema[k]["name"]]
                       = strip(StripSeparator(strip(RemainderAfterKeyword(k))))

\* C25, amended: a text field gets the not-found sentinel when no line holds
\* its lowercased name or instruction; when a line does, the value is what
\* follows the keyword on the first such line, stripped, without one leading
\* separator, and stripped again, whatever that text is, be it empty or the
\* very words of the sentinel: neither fallback gives a value.
C25_FirstStepDecides ==
    (call.op \in DirectOps /\ Returned) =>
        \A k \in TextFields :
            /\ NameOrInstructionLines(k) = {} =>
                   Values[CallSchema[k]["name"]] = Sentinel(CallSchema[k])
            /\ NameOrInstructionLines(k) # {} =>
                   Values[CallSchema[k]["name"]]
                       = strip(StripSeparator(strip(RemainderAfterKeyword(k))))

\* a text field got the words of its sentinel from the first step, on a line
\* that holds its name
C25_Witness ==
    /\ call.op = "process_document_with_schema"
    /\ Returned
    /\ \E k \in TextFields :
           /\ Get(CallSchema[k], "instruction", <<>>) # <<>>
           /\ NameOrInstructionLines(k) # {}
           /\ Values[CallSchema[k]["name"]] = Sentinel(CallSchema[k])
           /\ strip(StripSeparator(strip(RemainderAfterKeyword(k)))) = Sentinel(CallSchema[k])

----------------------------------------------------------------------------
(* C26 *)

\* the entries of a schema, counted from 0, that have no name, the name of an
\* earlier entry, or a type that is none of the four
Offending(schema) ==
    {i \in 0..(Len(schema) - 1) :
        \/ "name" \notin DOMAIN schema[i + 1]
        \/ \E j \in 1..i : /\ "name" \in DOMAIN schema[j]
                           /\ schema[j]["name"] = schema[i + 1]["name"]
        \/ Get(schema[i + 1], "type", "text") \notin {"text", "currency", "number", "date"}}

\* an error of the list that starts with "Field i: "
NamesIndex(errors, i) ==
    \E e \in 1..Len(errors) :
        LET prefix == <<"F", "i", "e", "l", "d", " ">> \o Decimal(i) \o <<":", " ">>
        IN  /\ Len(errors[e]) >= Len(prefix)
            /\ SubSeq(errors[e], 1, Len(prefix)) = prefix

\* C26, as claimed: schema extraction on a schema that
\* validate_blueprint_schema reports valid returns, without raising, a
\* mapping of one entry per field; and a schema with an entry without name,
\* with the name of an earlier entry or with an unknown type is reported
\* invalid, with an error that names the index of that entry.
C26_ValidSchemasExtract ==
    /\ (call.op \in SchemaExtractionOps /\ ret.raised # "pending"
        /\ validate_blueprint_schema(CallSchema).valid) =>
           /\ Returned
           /\ Cardinality(DOMAIN Values) = Len(CallSchema)
    /\ (call.op = "validate_blueprint_schema" /\ Returned
        /\ Offending(call.schema) # {}) =>
           /\ ~ret.value.valid
           /\ \A i \in Offending(call.schema) : NamesIndex(ret.value.errors, i)

----------------------------------------------------------------------------
(* C27 *)

\* how often id stands in the lists of the users
Listed(linked, id) ==
    Cardinality({<<user_id, i>> \in (DOMAIN linked) \X (1..(MaxListed + 1)) :
                    i <= Len(linked[user_id]) /\ linked[user_id][i] = id})

\* C27, as claimed: a call of create_blueprint that returns, after whatever
\* calls and at whatever second, returns an id that was not stored, leaves
\* every blueprint that was stored as it was, makes the stored blueprints
\* one more, and leaves the id once in the lists of the users.
C27_CreateGivesFreshId ==
    [][(/\ call'.op = "create_blueprint"
        /\ users_to_blueprints' # users_to_blueprints
        /\ ret'.raised = "") =>
           /\ ret'.value.id \notin DOMAIN blueprints
           /\ \A id \in DOMAIN blueprints :
                  id \in DOMAIN blueprints' /\ blueprints'[id] = blueprints[id]
           /\ Cardinality(DOMAIN blueprints') = Cardinality(DOMAIN blueprints) + 1
           /\ Listed(users_to_blueprints', ret'.value.id) = 1]_vars

----------------------------------------------------------------------------
(* C28 *)

\* the status of the document in the tables
StatusIn(tables, document_id) ==
    SelectSeq(tables.documents, LAMBDA r : r.id = document_id)[1].status

\* C28, as claimed: with handlers that interleave at their awaits, no step
\* sets a document that is PROCESSING, READY or FAILED back to UPLOADED,
\* process_document_synchronously is called at most once for a document, and
\* the chunk_count of a READY document is the number of its chunk rows.
C28_StatusNeverMovesBack ==
    [][\A i \in DOMAIN db.documents :
           LET document_id == db.documents[i].id
           IN  /\ db.documents[i].status \in {"PROCESSING", "READY", "FAILED"}
                      => StatusIn(db', document_id) # "UPLOADED"
               /\ Runs(processing_runs', document_id) <= 1
               /\ StatusIn(db', document_id) = "READY" =>
                      db'.documents[i].chunk_count
                          = Len(SelectSeq(db'.chunks,
                                          LAMBDA c : c.document_id = document_id))]_vars

----------------------------------------------------------------------------
(* C29 *)

\* a run of process_task has ended, with a return or with an exception
TaskEnded == call.op = "process_task" /\ ret.raised # "pending"

\* the download, the conversion and the extraction of the run that has
\* ended succeeded
TaskSucceeded ==
    {"requests.get", "open", "converter.convert", "agent.run_sync"} \subseteq ret.value.returned

\* C29, as claimed: a run of process_task issues one callback, COMPLETED when
\* download, conversion and extraction succeeded and FAILED otherwise, issues
\* no FAILED callback after a COMPLETED one, also when the COMPLETED request
\* raises, and when it ends, however it ends, no file that it has written is
\* in /tmp (a file that another run has since written at the same path is
\* not the run's).
C29_OneCallbackPerRun ==
    TaskEnded =>
        LET callbacks == ret.value.callbacks
        IN  /\ Len(callbacks) = 1
            /\ callbacks[1].docId = call.req.doc_id
            /\ callbacks[1].status = IF TaskSucceeded THEN "COMPLETED" ELSE "FAILED"
            /\ \A i \in 1..Len(callbacks) : \A j \in (i + 1)..Len(callbacks) :
                   ~(callbacks[i].status = "COMPLETED" /\ callbacks[j].status = "FAILED")
            /\ (ret.value.made \ ret.value.replaced) \cap files = {}

----------------------------------------------------------------------------
(* C30 *)

\* the project of the key of a request
Caller(tables, request) == get_project_from_api_key(tables.api_keys, request.authorization)

\* the document of the request is in the tables and is of another project
\* than the caller's
OfAnotherProject(tables, request) ==
    /\ Caller(tables, request) # None
    /\ \E i \in DOMAIN tables.documents :
           /\ tables.documents[i].id = request.document_id
           /\ tables.documents[i].project_id # Caller(tables, request)

\* C30: whatever requests the projects have made, get_document answers with
\* a document of the caller's project, query_documents with chunks of the
\* caller's project whose documents are READY, and get, upload and complete
\* on a document of another project are answered 404 and leave the tables as
\* they were.
C30_ProjectIsolation ==
    [][/\ (call'.op = "get_document" /\ ret'.raised = "" /\ ret'.value.status_code = 200)
              => ret'.value.data.project_id = Caller(db, call')
       /\ (call'.op = "query_documents" /\ ret'.raised = "" /\ ret'.value.status_code = 200)
              => \A k \in DOMAIN ret'.value.data.chunks :
                     LET c == ret'.value.data.chunks[k]
                     IN  /\ c.project_id = Caller(db, call')
                         /\ \E i \in DOMAIN db.documents :
                                /\ db.documents[i].id = c.document_id
                                /\ db.documents[i].project_id = Caller(db, call')
                                /\ db.documents[i].status = "READY"
       /\ (/\ call'.op \in {"get_document", "upload_document", "complete_document"}
           /\ call' # call
           /\ OfAnotherProject(db, call'))
              => /\ ret'.raised = "" /\ ret'.value.status_code = 404
                 /\ db' = db /\ pending' = pending]_vars

\* a project has got chunks from a query while the other project has a READY
\* document, whose chunks the query has left out
C30_Witness ==
    /\ call.op = "query_documents"
    /\ Returned
    /\ ret.value.status_code = 200
    /\ ret.value.data.chunks # <<>>
    /\ \E i \in DOMAIN db.documents :
           /\ db.documents[i].project_id # Caller(db, call)
           /\ db.documents[i].status = "READY"

====
